---- MODULE Spec2Model ----
(***************************************************************************)
(* State-machine model of the command/response relay of ABAP Code Studio: *)
(*   cloud-backend/orchestrator/agent_bridge.py  (AgentBridge, AgentPool)  *)
(*   cloud-backend/api/main.py                   (agent_websocket)         *)
(*   agent-sdk/tunnel.py                         (WebSocketTunnel)         *)
(*   agent-sdk/agent.py                          (start_tunnel, dispatcher)*)
(* Python None is the string "null"; an asyncio await is a step boundary.  *)
(***************************************************************************)
EXTENDS Integers, Sequences, FiniteSets, TLC

\* ------------------------------------------------------------------ bounds
\* number of send_command calls issued on one bridge
MaxCalls == 2
\* number of connection attempts the network answers (supervisor alone)
MaxAttempts == 6
\* number of connection attempts the network answers (with message traffic)
MaxSessions == 2
\* number of raw messages the cloud sends to the tunnel
MaxMsgs == 2
\* number of times the heartbeat task wakes up
MaxBeats == 1
\* number of inbound connections the server accepts
MaxConns == 2
\* number of frames the server reads from one connection (registry alone)
MaxFrames == 1
\* number of AgentPool.register calls (pool alone)
MaxRegs == 3
\* number of steps of a pipeline run
MaxSteps == 3
\* number of calls of the tool sap_write
MaxWrites == 2

\* ------------------------------------------------------------- value sets
Null == "null"
\* session ids: uuid4 values, modelled as fresh numbers 1..MaxCalls
CallIds == 1..MaxCalls
\* a session id that no send_command ever generated (stray frame)
UnknownId == 0
\* payloads an agent can put in a result frame
Data == {"pong", "data"}
\* command kinds the server issues through the bridge
BridgeCommandTypes == {"ping", "search"}

VARIABLES
    \* AgentBridge._pending: session_id -> future; a future is
    \* [st |-> "waiting" | "done" | "cancelled", val |-> result or Null]
    pending,
    \* per send_command invocation (keyed by the session id it generates):
    \* [pc, result, outcome]; pc: "new" (not called), "sending" (awaiting
    \* ws.send_json), "waiting" (awaiting wait_for), "returned"
    calls,
    \* number of session ids generated so far (uuid4 freshness)
    issued,
    \* command frames handed to the websocket of the bridge, in send order
    toAgent,
    \* history: per id, how many resolve_response calls returned True
    trueCount,
    \* history: per id, the data of the resolve_response that returned True
    resolvedWith,
    \* history: per id, TRUE once wait_for's deadline expired for the call
    timedOut,
    \* observation of the last bridge operation: [name, id, ret]
    op

VARIABLES
    \* WebSocketTunnel._running
    running,
    \* WebSocketTunnel._ws: "none" (None), "live" (the websocket of the
    \* current connection), "stale" (still the websocket of an ended one)
    tws,
    \* the channel of the current connection attempt:
    \* "none", "open", "closed_ok" (closed, code 1000/1001), "closed_err"
    chan,
    \* local reconnect_delay of start()
    reconnect_delay,
    \* where start() is suspended: "idle" (not called), "connecting"
    \* (websockets.connect), "status" (_send_status), "recv" (async for),
    \* "handler" (wait_for(command_handler)), "sleep" (asyncio.sleep), "done"
    tpc,
    \* heartbeat task: "none", "active", "ended" (its loop was left), "cancelled"
    hb,
    \* TunnelStats.reconnect_count
    reconnect_count,
    \* where stop() is: "idle" (not called), "closing" (awaiting ws.close), "done"
    stopPc,
    \* the message whose handler is running, or NoMsg
    cur,
    \* number of raw messages received so far (bounded by MaxMsgs)
    msgs,
    \* number of answered connection attempts (bounded by MaxAttempts)
    attempts,
    \* history: durations of the backoff sleeps, 0 for each connect success
    sleeps,
    \* history: the last message of the loop body that completed:
    \* [msg, outcome, replies, escaped, open] or NoLast
    last,
    \* WebSocketTunnel._stats without reconnect_count and the byte counts:
    \* [connected_since, messages_sent, messages_received,
    \* commands_processed, last_heartbeat]; a time is the number of the
    \* connection attempt it falls in, 0 for None
    stats,
    \* number of times the heartbeat task has woken up (bounded by MaxBeats)
    beats

VARIABLES
    \* per inbound connection: the bearer token of its handshake headers
    token,
    \* per inbound connection, where its agent_websocket of main.py is:
    \* "none" (no handshake yet), "accepted" (after ws.accept), "open" (in
    \* the receive loop), "closed_4001" (closed by line 320), "closed"
    srv,
    \* main.py _agent_connections: agent id -> the connection (websocket)
    agentConnections,
    \* AgentPool._agents: agent id -> bridge (the number of its register call)
    poolAgents,
    \* the keys of AgentPool._agents in the order the dict holds them
    poolOrder,
    \* number of AgentPool.register calls so far
    registered,
    \* AgentPool._system_map: system name -> agent id
    systemMap,
    \* observation of the last AgentPool operation: [name, agent, system,
    \* agents0, map0], the last two being _agents and _system_map before it
    poolOp,
    \* frames the agent handed to its websocket, in send order
    toServer,
    \* how many frames of toAgent the agent has received
    delivered,
    \* per inbound connection: how many frames its receive loop has consumed
    srvRead

VARIABLES
    \* the time in seconds since the bridge was created
    now,
    \* per send_command call: [issuedAt, deadline, due, ran, returnedAt], the
    \* times it was called, wait_for expires and the agent's frame arrives,
    \* how long the agent's handler runs, the time it returned; -1 while
    \* there is none
    timing

VARIABLES
    \* PipelineRun.steps: the status of each step, in order
    steps,
    \* what the property passed gave when it was last read: "none" before
    \* it is read, then "true" or "false"
    run_passed

clockVars == <<now, timing>>

bridgeVars == <<pending, calls, issued, toAgent, trueCount, resolvedWith, timedOut, op>>

serverVars == <<token, srv, agentConnections, poolAgents, poolOrder, registered, systemMap, poolOp,
                toServer, delivered, srvRead>>

tunnelVars == <<running, tws, chan, reconnect_delay, tpc, hb, reconnect_count,
                stopPc, cur, msgs, attempts, sleeps, last, stats, beats>>

pipelineVars == <<steps, run_passed>>

VARIABLES
    \* per call of the tool sap_write: [pc, handle, calls, result]; pc is
    \* where the coroutine stands, handle its local lock_handle, calls the
    \* connector calls it has made, in order, each [call, handle, ok]
    writes

writeVars == <<writes>>

vars == <<bridgeVars, tunnelVars, serverVars, clockVars, pipelineVars, writeVars>>

NoOp == [name |-> "none", id |-> UnknownId, ret |-> Null]

\* ------------------------------------------------------------ AgentBridge

\* AgentBridge.__init__: empty pending table
BridgeInit ==
    /\ pending = [i \in {} |-> Null]
    /\ calls = [i \in CallIds |-> [pc |-> "new", result |-> Null, outcome |-> "none"]]
    /\ issued = 0
    /\ toAgent = << >>
    /\ trueCount = [i \in CallIds \cup {UnknownId} |-> 0]
    /\ resolvedWith = [i \in CallIds \cup {UnknownId} |-> Null]
    /\ timedOut = [i \in CallIds |-> FALSE]
    /\ op = NoOp

\* AgentBridge.pending_count
pending_count == Cardinality(DOMAIN pending)

\* send_command, lines 48-50: fresh session id, new future, table entry;
\* the coroutine then suspends in ws.send_json
SendCommandBegin ==
    /\ issued < MaxCalls
    /\ LET id == issued + 1 IN
        /\ issued' = id
        /\ pending' = [i \in DOMAIN pending \cup {id} |->
                         IF i = id THEN [st |-> "waiting", val |-> Null] ELSE pending[i]]
        /\ calls' = [calls EXCEPT ![id].pc = "sending"]
        /\ op' = [name |-> "send_command", id |-> id, ret |-> Null]
    /\ UNCHANGED <<toAgent, trueCount, resolvedWith, timedOut>>

\* variant: only the deadline is caught, a send failure reaches the caller
SendCommandExceptTimeoutOnly(exc) ==
    CASE exc = "TimeoutError" -> "null"
      [] exc = "Exception" -> "raised"

\* the except/finally clauses of send_command: what the caller observes
\* for an exception raised inside the try block
SendCommandExcept(exc) ==
    CASE exc = "TimeoutError" -> "null"
      [] exc = "Exception" -> "null"

\* variant: the entry is not removed when the call ends
PendingPopLeak(id) == pending

\* the finally clause: self._pending.pop(session_id, None)
PendingPop(id) == [i \in DOMAIN pending \ {id} |-> pending[i]]

\* send_command, lines 54-59: ws.send_json succeeded, the frame is on the wire
SendCommandSendOk(id, type) ==
    /\ calls[id].pc = "sending"
    /\ toAgent' = Append(toAgent, [type |-> type, session_id |-> id])
    /\ calls' = [calls EXCEPT ![id].pc = "waiting"]
    /\ op' = [name |-> "send_json", id |-> id, ret |-> "ok"]
    /\ UNCHANGED <<pending, issued, trueCount, resolvedWith, timedOut>>

\* send_command, lines 54-59 raising: except Exception, finally, return
SendCommandSendFail(id) ==
    /\ calls[id].pc = "sending"
    /\ calls' = [calls EXCEPT ![id] = [pc |-> "returned", result |-> Null,
                                      outcome |-> SendCommandExcept("Exception")]]
    /\ pending' = PendingPop(id)
    /\ op' = [name |-> "send_json", id |-> id, ret |-> "raised"]
    /\ UNCHANGED <<issued, toAgent, trueCount, resolvedWith, timedOut>>

\* variant: the deadline also fires on a future that already holds a result
WaitForTimeoutAfterDone(id) ==
    /\ calls[id].pc = "waiting"
    /\ id \in DOMAIN pending
    /\ pending' = [pending EXCEPT ![id].st = "cancelled"]
    /\ timedOut' = [timedOut EXCEPT ![id] = TRUE]
    /\ op' = [name |-> "timeout", id |-> id, ret |-> Null]
    /\ UNCHANGED <<calls, issued, toAgent, trueCount, resolvedWith>>

\* asyncio.wait_for(future, COMMAND_TIMEOUT) expiring: the awaited future is
\* cancelled, TimeoutError will be raised in send_command when it resumes
WaitForTimeout(id) ==
    /\ calls[id].pc = "waiting"
    /\ id \in DOMAIN pending
    /\ pending[id].st = "waiting"
    /\ pending' = [pending EXCEPT ![id].st = "cancelled"]
    /\ timedOut' = [timedOut EXCEPT ![id] = TRUE]
    /\ op' = [name |-> "timeout", id |-> id, ret |-> Null]
    /\ UNCHANGED <<calls, issued, toAgent, trueCount, resolvedWith>>

\* send_command resuming from wait_for, lines 62-72: return the result of a
\* done future, or None for TimeoutError; finally pop the entry
SendCommandReturn(id) ==
    /\ calls[id].pc = "waiting"
    /\ id \in DOMAIN pending
    /\ pending[id].st # "waiting"
    /\ calls' = [calls EXCEPT ![id] =
                   IF pending[id].st = "done"
                   THEN [pc |-> "returned", result |-> pending[id].val, outcome |-> "value"]
                   ELSE [pc |-> "returned", result |-> Null,
                         outcome |-> SendCommandExcept("TimeoutError")]]
    /\ pending' = PendingPop(id)
    /\ op' = [name |-> "return", id |-> id, ret |-> calls'[id].result]
    /\ UNCHANGED <<issued, toAgent, trueCount, resolvedWith, timedOut>>

\* variant: the done() test is dropped
ResolveHitAnyEntry(id) == id \in DOMAIN pending

\* resolve_response, line 80: future and not future.done()
ResolveHit(id) == id \in DOMAIN pending /\ pending[id].st = "waiting"

\* variant: a response settles every call that is waiting
ResolveResponseAll(id, data) ==
    /\ IF ResolveHit(id)
       THEN /\ pending' = [i \in DOMAIN pending |->
                             IF pending[i].st = "waiting"
                             THEN [st |-> "done", val |-> data] ELSE pending[i]]
            /\ trueCount' = [trueCount EXCEPT ![id] = IF @ < 2 THEN @ + 1 ELSE @]
            /\ resolvedWith' = [resolvedWith EXCEPT ![id] = data]
            /\ op' = [name |-> "resolve_response", id |-> id, ret |-> "true"]
       ELSE /\ op' = [name |-> "resolve_response", id |-> id, ret |-> "false"]
            /\ UNCHANGED <<pending, trueCount, resolvedWith>>
    /\ UNCHANGED <<calls, issued, toAgent, timedOut>>

\* AgentBridge.resolve_response(session_id, data), lines 79-83
ResolveResponse(id, data) ==
    /\ IF ResolveHit(id)
       THEN /\ pending' = [pending EXCEPT ![id] = [st |-> "done", val |-> data]]
            /\ trueCount' = [trueCount EXCEPT ![id] = IF @ < 2 THEN @ + 1 ELSE @]
            /\ resolvedWith' = [resolvedWith EXCEPT ![id] = data]
            /\ op' = [name |-> "resolve_response", id |-> id, ret |-> "true"]
       ELSE /\ op' = [name |-> "resolve_response", id |-> id, ret |-> "false"]
            /\ UNCHANGED <<pending, trueCount, resolvedWith>>
    /\ UNCHANGED <<calls, issued, toAgent, timedOut>>

\* ids a response frame can carry: the session id of a command frame that
\* reached the wire (uuid4 values are not guessable), or a stray id
SentIds == {toAgent[k].session_id : k \in 1..Len(toAgent)}

BridgeNext ==
    \/ SendCommandBegin /\ UNCHANGED <<tunnelVars, serverVars, clockVars, pipelineVars, writeVars>>
    \/ \E id \in CallIds, t \in BridgeCommandTypes : SendCommandSendOk(id, t) /\ UNCHANGED <<tunnelVars, serverVars, clockVars, pipelineVars, writeVars>>
    \/ \E id \in CallIds : SendCommandSendFail(id) /\ UNCHANGED <<tunnelVars, serverVars, clockVars, pipelineVars, writeVars>>
    \/ \E id \in CallIds : WaitForTimeout(id) /\ UNCHANGED <<tunnelVars, serverVars, clockVars, pipelineVars, writeVars>>
    \/ \E id \in CallIds : SendCommandReturn(id) /\ UNCHANGED <<tunnelVars, serverVars, clockVars, pipelineVars, writeVars>>
    \/ \E id \in SentIds \cup {UnknownId}, d \in Data : ResolveResponse(id, d) /\ UNCHANGED <<tunnelVars, serverVars, clockVars, pipelineVars, writeVars>>


\* -------------------------------------------------------- WebSocketTunnel

RECONNECT_DELAY_INITIAL == 2
RECONNECT_DELAY_MAX == 60
COMMAND_TIMEOUT == 120

\* message.get("session_id", "") for a frame without the key
EmptySid == 0

\* command kinds _handle_cloud_command dispatches
KnownKinds == {"search", "read", "write", "activate", "syntax_check", "atc", "ping"}

\* raw messages the cloud side can put on the channel: text that is not
\* JSON, JSON that is not an object, and frames (JSON objects)
TunnelFrames ==
    [json : {"object"}, type : {"ping", "search", "frobnicate", "heartbeat"}, session_id : {1, EmptySid}]
TunnelInputs ==
    [json : {"invalid", "nondict"}, type : {Null}, session_id : {EmptySid}] \cup TunnelFrames

\* no message / no frame (Python None)
NoMsg == [json |-> "none", type |-> Null, session_id |-> EmptySid]
NoFrame == [type |-> "none", session_id |-> EmptySid, payload |-> Null]
NoLast == [msg |-> NoMsg, outcome |-> Null, replies |-> << >>, escaped |-> FALSE, open |-> FALSE]

\* what awaiting command_handler(...) under wait_for can do: behave as the
\* dispatcher _handle_cloud_command (whose MCP tool returns or raises),
\* return no response, raise, raise a TimeoutError of its own, or run
\* past COMMAND_TIMEOUT
HandlerOutcomes ==
    {"dispatch_ok", "dispatch_raise", "none", "raise", "raise_timeout", "slow"}

Frame(t, sid, payload) == [type |-> t, session_id |-> sid, payload |-> payload]

\* agent.py _handle_cloud_command: tool is what the MCP tool call does
HandleCloudCommand(cmd_type, session_id, tool) ==
    IF cmd_type \in KnownKinds \ {"ping"}
    THEN IF tool = "ok"
         THEN Frame("result", session_id, "value")
         ELSE Frame("error", session_id, "failure")
    ELSE IF cmd_type = "ping"
         THEN Frame("result", session_id, "pong")
         ELSE Frame("result", session_id, "Unknown command")

\* _process_message, lines 185-190: the frame for a TimeoutError
TimeoutFrame(msg) == Frame("error", msg.session_id, "timed out")

\* variant: the error frame does not take over the session id
ErrorFrameNoSid(msg) == Frame("error", EmptySid, "failure")

\* start(), lines 134-138: the frame for any other exception
ErrorFrame(msg) == Frame("error", msg.session_id, "failure")

\* _process_message, line 176
PongFrame(msg) == Frame("pong", msg.session_id, Null)

\* _process_message(message) for a frame: [raised, resp]
ProcessMessage(msg, outcome) ==
    IF msg.type = "ping"
    THEN [raised |-> FALSE, resp |-> PongFrame(msg)]
    ELSE CASE outcome = "dispatch_ok" ->
                [raised |-> FALSE, resp |-> HandleCloudCommand(msg.type, msg.session_id, "ok")]
           [] outcome = "dispatch_raise" ->
                [raised |-> FALSE, resp |-> HandleCloudCommand(msg.type, msg.session_id, "raise")]
           [] outcome = "none" -> [raised |-> FALSE, resp |-> NoFrame]
           [] outcome = "raise" -> [raised |-> TRUE, resp |-> NoFrame]
           [] outcome \in {"raise_timeout", "slow"} ->
                [raised |-> FALSE, resp |-> TimeoutFrame(msg)]

\* _send(data): "dropped" without a websocket, "sent" on an open channel,
\* "raised" (ConnectionClosed) on a closed one
SendResult == IF tws = "none" THEN "dropped" ELSE IF chan = "open" THEN "sent" ELSE "raised"

\* _send(data) as its caller sees it: it returns None, whether the frame
\* was sent or dropped, or the exception of the websocket comes out of it
SendReturn == IF SendResult = "raised" THEN "raise" ELSE "none"

\* start(), lines 125-138, from the return of _process_message on:
\* [replies, escaped]; escaped: an exception left the async for
LoopBody(msg, outcome) ==
    LET r == ProcessMessage(msg, outcome)
        sendFails == ~r.raised /\ r.resp # NoFrame /\ SendResult = "raised"
    IN  IF ~r.raised /\ ~sendFails
        THEN [replies |-> IF r.resp # NoFrame /\ SendResult = "sent" THEN <<r.resp>> ELSE << >>,
              escaped |-> FALSE]
        ELSE [replies |-> IF SendResult = "sent" THEN <<ErrorFrame(msg)>> ELSE << >>,
              escaped |-> SendResult = "raised"]

\* while self._running: the next suspension point of start()
LoopTop == IF running THEN "connecting" ELSE "done"

\* leaving "async with websockets.connect(...)" closes the websocket
WithExit == IF chan = "open" THEN "closed_ok" ELSE chan

\* TunnelStats(): the values of a fresh statistics object
TunnelStats ==
    [connected_since |-> 0, messages_sent |-> 0, messages_received |-> 0,
     commands_processed |-> 0, last_heartbeat |-> 0]

\* WebSocketTunnel.__init__
TunnelInit ==
    /\ running = FALSE
    /\ tws = "none"
    /\ chan = "none"
    /\ reconnect_delay = RECONNECT_DELAY_INITIAL
    /\ tpc = "idle"
    /\ hb = "none"
    /\ reconnect_count = 0
    /\ stopPc = "idle"
    /\ cur = NoMsg
    /\ msgs = 0
    /\ attempts = 0
    /\ sleeps = << >>
    /\ last = NoLast
    /\ stats = TunnelStats
    /\ beats = 0

\* start(), lines 90-97: up to the first websockets.connect
TunnelStart ==
    /\ tpc = "idle"
    /\ running' = TRUE
    /\ reconnect_delay' = RECONNECT_DELAY_INITIAL
    /\ tpc' = "connecting"
    /\ UNCHANGED <<tws, chan, hb, reconnect_count, stopPc, beats, cur, msgs, attempts, sleeps, last, stats>>

\* start(), lines 145-153: except Exception up to asyncio.sleep; the
\* heartbeat task, when one was created, is cancelled by the finally clause
Backoff ==
    /\ tws' = "none"
    /\ chan' = WithExit
    /\ reconnect_count' = reconnect_count + 1
    /\ hb' = IF hb = "active" THEN "cancelled" ELSE hb
    /\ sleeps' = Append(sleeps, reconnect_delay)
    /\ tpc' = "sleep"
    /\ cur' = NoMsg

\* websockets.connect raising
ConnectFail(maxAttempts) ==
    /\ tpc = "connecting"
    /\ attempts < maxAttempts
    /\ attempts' = attempts + 1
    /\ Backoff
    /\ UNCHANGED <<running, reconnect_delay, stopPc, beats, msgs, last, stats>>

\* websockets.connect succeeding, lines 108-114: up to awaiting _send_status
ConnectOk(maxAttempts) ==
    /\ tpc = "connecting"
    /\ attempts < maxAttempts
    /\ attempts' = attempts + 1
    /\ tws' = "live"
    /\ chan' = "open"
    /\ reconnect_delay' = RECONNECT_DELAY_INITIAL
    /\ sleeps' = Append(sleeps, 0)
    /\ stats' = [stats EXCEPT !.connected_since = attempts + 1]
    /\ tpc' = "status"
    /\ UNCHANGED <<running, hb, reconnect_count, stopPc, beats, cur, msgs, last>>

\* _send_status returning or raising, lines 114-121; the heartbeat task
\* that line 117 creates tests self._running before its first sleep
StatusSent ==
    /\ tpc = "status"
    /\ IF SendResult = "raised"
       THEN Backoff /\ UNCHANGED <<running, reconnect_delay, stopPc, beats, msgs, attempts, last, stats>>
       ELSE /\ hb' = IF running THEN "active" ELSE "ended"
            /\ tpc' = "recv"
            /\ stats' = IF SendResult = "sent"
                        THEN [stats EXCEPT !.messages_sent = @ + 1] ELSE stats
            /\ UNCHANGED <<running, tws, chan, reconnect_delay, reconnect_count,
                           stopPc, beats, cur, msgs, attempts, sleeps, last>>

\* asyncio.sleep(reconnect_delay) returning, line 154, and the loop test
SleepDone ==
    /\ tpc = "sleep"
    /\ reconnect_delay' = IF reconnect_delay * 2 < RECONNECT_DELAY_MAX
                          THEN reconnect_delay * 2 ELSE RECONNECT_DELAY_MAX
    /\ tpc' = LoopTop
    /\ UNCHANGED <<running, tws, chan, hb, reconnect_count, stopPc, beats, cur, msgs,
                   attempts, sleeps, last, stats>>

\* the counterpart closes the channel with code 1000/1001
PeerCloseClean ==
    /\ chan = "open"
    /\ chan' = "closed_ok"
    /\ UNCHANGED <<running, tws, reconnect_delay, tpc, hb, reconnect_count, stopPc, beats,
                   cur, msgs, attempts, sleeps, last, stats>>

\* the channel breaks or is closed with another code
PeerCloseError ==
    /\ chan = "open"
    /\ chan' = "closed_err"
    /\ UNCHANGED <<running, tws, reconnect_delay, tpc, hb, reconnect_count, stopPc, beats,
                   cur, msgs, attempts, sleeps, last, stats>>

\* async for on a cleanly closed channel, lines 121, 139-140, 93: the
\* iteration ends, the heartbeat is cancelled, the with block is left and
\* the loop test is next
RecvEnd ==
    /\ tpc = "recv"
    /\ chan = "closed_ok"
    /\ hb' = "cancelled"
    /\ tws' = IF tws = "live" THEN "stale" ELSE tws
    /\ tpc' = LoopTop
    /\ UNCHANGED <<running, chan, reconnect_delay, reconnect_count, stopPc, beats, cur,
                   msgs, attempts, sleeps, last, stats>>

\* async for raising ConnectionClosedError
RecvError ==
    /\ tpc = "recv"
    /\ chan = "closed_err"
    /\ Backoff
    /\ UNCHANGED <<running, reconnect_delay, stopPc, beats, msgs, attempts, last, stats>>

\* the loop body having completed for msg; st is _stats when
\* _process_message has returned or raised
BodyDone(msg, outcome, st) ==
    LET b == LoopBody(msg, outcome) IN
    /\ stats' = [st EXCEPT !.messages_sent = @ + Len(b.replies)]
    /\ last' = [msg |-> msg, outcome |-> outcome, replies |-> b.replies,
                escaped |-> b.escaped,
                open |-> (~b.escaped /\ tws = "live" /\ chan = "open")]
    /\ IF b.escaped
       THEN Backoff /\ UNCHANGED <<running, reconnect_delay, stopPc, beats>>
       ELSE /\ tpc' = "recv"
            /\ cur' = NoMsg
            /\ UNCHANGED <<running, tws, chan, reconnect_delay, hb, reconnect_count,
                           stopPc, beats, sleeps>>

\* lines 122 and 173: _stats once raw was counted and, for a frame,
\* _process_message has counted the command
Counted(raw) ==
    [stats EXCEPT !.messages_received = @ + 1,
                  !.commands_processed = IF raw.json = "object" THEN @ + 1 ELSE @]

\* async for yielding raw, lines 121-138
Recv(raw) ==
    /\ tpc = "recv"
    /\ chan = "open"
    /\ msgs < MaxMsgs
    /\ msgs' = msgs + 1
    /\ attempts' = attempts
    /\ CASE raw.json = "invalid" ->
              \* json.JSONDecodeError: logged, next message
              /\ stats' = Counted(raw)
              /\ UNCHANGED <<running, tws, chan, reconnect_delay, tpc, hb, reconnect_count,
                             stopPc, beats, cur, sleeps, last>>
         [] raw.json = "nondict" ->
              \* message.get raises in _process_message and again in the
              \* except clause: the exception leaves the async for
              /\ stats' = Counted(raw)
              /\ Backoff
              /\ UNCHANGED <<running, reconnect_delay, stopPc, beats, last>>
         [] raw.json = "object" /\ raw.type = "ping" ->
              BodyDone(raw, "ping", Counted(raw))
         [] OTHER ->
              /\ stats' = Counted(raw)
              /\ cur' = raw
              /\ tpc' = "handler"
              /\ UNCHANGED <<running, tws, chan, reconnect_delay, hb, reconnect_count,
                             stopPc, beats, sleeps, last>>

\* variant: the loop goes on to the next message when the handler ends and
\* no response is sent for the command
HandlerDoneNoResponse(outcome) ==
    /\ tpc = "handler"
    /\ tpc' = "recv"
    /\ cur' = NoMsg
    /\ UNCHANGED <<running, tws, chan, reconnect_delay, hb, reconnect_count, stopPc,
                   beats, sleeps, last, stats, msgs, attempts>>

\* wait_for(command_handler(...)) completing, lines 127-138
HandlerDone(outcome) ==
    /\ tpc = "handler"
    /\ BodyDone(cur, outcome, stats)
    /\ UNCHANGED <<msgs, attempts>>

\* variant: the heartbeat is counted as sent whatever the send does
HeartbeatCountsAlways ==
    /\ hb = "active"
    /\ beats < MaxBeats
    /\ beats' = beats + 1
    /\ stats' = [stats EXCEPT !.last_heartbeat = attempts,
                              !.messages_sent = @ + 1]
    /\ hb' = IF SendResult = "raised" \/ ~running THEN "ended" ELSE "active"
    /\ UNCHANGED <<running, tws, chan, reconnect_delay, tpc, reconnect_count, stopPc,
                   cur, msgs, attempts, sleeps, last>>

\* _heartbeat_loop, lines 218-232: the task wakes from its sleep, notes
\* the time, sends a heartbeat frame and tests the loop condition
Heartbeat ==
    /\ hb = "active"
    /\ beats < MaxBeats
    /\ beats' = beats + 1
    /\ stats' = [stats EXCEPT !.last_heartbeat = attempts,
                              !.messages_sent = IF SendResult = "sent" THEN @ + 1 ELSE @]
    /\ hb' = IF SendResult = "raised" \/ ~running THEN "ended" ELSE "active"
    /\ UNCHANGED <<running, tws, chan, reconnect_delay, tpc, reconnect_count, stopPc,
                   cur, msgs, attempts, sleeps, last>>

\* stop(), lines 158-160: up to awaiting self._ws.close(); stop() can be
\* called again once an earlier call has returned
StopBegin ==
    /\ stopPc \in {"idle", "done"}
    /\ tpc # "idle"
    /\ running' = FALSE
    /\ IF tws # "none"
       THEN /\ chan' = IF tws = "live" /\ chan = "open" THEN "closed_ok" ELSE chan
            /\ stopPc' = "closing"
       ELSE /\ stopPc' = "done"
            /\ chan' = chan
    /\ UNCHANGED <<tws, reconnect_delay, tpc, hb, reconnect_count, cur, msgs,
                   attempts, sleeps, last, stats, beats>>

\* stop(), lines 161-162
StopEnd ==
    /\ stopPc = "closing"
    /\ tws' = "none"
    /\ stopPc' = "done"
    /\ UNCHANGED <<running, chan, reconnect_delay, tpc, hb, reconnect_count, cur,
                   msgs, attempts, sleeps, last, stats, beats>>

\* variant: a websocket alone makes the tunnel connected
is_connected_ws_only == tws # "none"

\* WebSocketTunnel.is_connected
is_connected == tws # "none" /\ running

TunnelNext ==
    \/ TunnelStart /\ UNCHANGED <<bridgeVars, serverVars, clockVars, pipelineVars, writeVars>>
    \/ ConnectFail(MaxSessions) /\ UNCHANGED <<bridgeVars, serverVars, clockVars, pipelineVars, writeVars>>
    \/ ConnectOk(MaxSessions) /\ UNCHANGED <<bridgeVars, serverVars, clockVars, pipelineVars, writeVars>>
    \/ StatusSent /\ UNCHANGED <<bridgeVars, serverVars, clockVars, pipelineVars, writeVars>>
    \/ SleepDone /\ UNCHANGED <<bridgeVars, serverVars, clockVars, pipelineVars, writeVars>>
    \/ PeerCloseClean /\ UNCHANGED <<bridgeVars, serverVars, clockVars, pipelineVars, writeVars>>
    \/ PeerCloseError /\ UNCHANGED <<bridgeVars, serverVars, clockVars, pipelineVars, writeVars>>
    \/ RecvEnd /\ UNCHANGED <<bridgeVars, serverVars, clockVars, pipelineVars, writeVars>>
    \/ RecvError /\ UNCHANGED <<bridgeVars, serverVars, clockVars, pipelineVars, writeVars>>
    \/ \E raw \in TunnelInputs : Recv(raw) /\ UNCHANGED <<bridgeVars, serverVars, clockVars, pipelineVars, writeVars>>
    \/ \E o \in HandlerOutcomes : HandlerDone(o) /\ UNCHANGED <<bridgeVars, serverVars, clockVars, pipelineVars, writeVars>>
    \/ Heartbeat /\ UNCHANGED <<bridgeVars, serverVars, clockVars, pipelineVars, writeVars>>
    \/ StopBegin /\ UNCHANGED <<bridgeVars, serverVars, clockVars, pipelineVars, writeVars>>
    \/ StopEnd /\ UNCHANGED <<bridgeVars, serverVars, clockVars, pipelineVars, writeVars>>


\* ------------------------------------------- AgentPool and agent_websocket

AgentIds == {"agent-1", "agent-2"}
Systems == {"ecc_prod", "s4_dev"}
Tokens == {"", "acs_token", "other"}
NoBridge == 0
\* the inbound connections of the server, in the order of their handshakes
Conns == 1..MaxConns

\* variant: every token that is not empty is taken
ValidateAgentTokenNonEmpty(t) ==
    IF t = "" THEN Null ELSE "agent_acs_token"

\* main.py _validate_agent_token: the agent id, or Null
ValidateAgentToken(t) ==
    IF t = "" \/ t # "acs_token" THEN Null ELSE "agent_acs_token"

\* AgentPool.__init__ and the module state of main.py; the token is the
\* AGENT_TOKEN the agent was configured with
ServerInit(tokens) ==
    /\ token \in [Conns -> tokens]
    /\ srv = [c \in Conns |-> "none"]
    /\ agentConnections = [a \in {} |-> 0]
    /\ poolAgents = [a \in {} |-> NoBridge]
    /\ poolOrder = << >>
    /\ registered = 0
    /\ systemMap = [n \in {} |-> Null]
    /\ poolOp = [name |-> "none", agent |-> Null, system |-> Null,
                 agents0 |-> << >>, map0 |-> << >>]
    /\ toServer = << >>
    /\ delivered = 0
    /\ srvRead = [c \in Conns |-> 0]

\* the record of a pool operation
PoolOp(name, a, n) ==
    [name |-> name, agent |-> a, system |-> n, agents0 |-> poolAgents, map0 |-> systemMap]

\* the sequence q without the element a
Without(q, a) == SelectSeq(q, LAMBDA x : x # a)

\* variant: register keeps the bridge an agent id already has
PoolRegisterKeepFirst(a) ==
    /\ registered' = registered + 1
    /\ poolAgents' = [x \in DOMAIN poolAgents \cup {a} |->
                        IF x \in DOMAIN poolAgents THEN poolAgents[x] ELSE registered + 1]
    /\ poolOrder' = IF a \in DOMAIN poolAgents THEN poolOrder ELSE Append(poolOrder, a)
    /\ poolOp' = PoolOp("register", a, Null)
    /\ UNCHANGED systemMap

\* AgentPool.register(agent_id, ws): a new bridge replaces any older one;
\* a key the dict already has keeps its place
PoolRegister(a) ==
    /\ registered' = registered + 1
    /\ poolAgents' = [x \in DOMAIN poolAgents \cup {a} |->
                        IF x = a THEN registered + 1 ELSE poolAgents[x]]
    /\ poolOrder' = IF a \in DOMAIN poolAgents THEN poolOrder ELSE Append(poolOrder, a)
    /\ poolOp' = PoolOp("register", a, Null)
    /\ UNCHANGED systemMap

\* variant: unregister leaves _system_map as it is
PoolUnregisterKeepMap(a) ==
    /\ poolAgents' = [x \in DOMAIN poolAgents \ {a} |-> poolAgents[x]]
    /\ poolOrder' = Without(poolOrder, a)
    /\ poolOp' = PoolOp("unregister", a, Null)
    /\ UNCHANGED <<registered, systemMap>>

\* AgentPool.unregister(agent_id): the agent and the mappings that point at it
PoolUnregister(a) ==
    /\ poolAgents' = [x \in DOMAIN poolAgents \ {a} |-> poolAgents[x]]
    /\ poolOrder' = Without(poolOrder, a)
    /\ systemMap' = [n \in {k \in DOMAIN systemMap : systemMap[k] # a} |-> systemMap[n]]
    /\ poolOp' = PoolOp("unregister", a, Null)
    /\ UNCHANGED registered

\* variant: map_system keeps the mapping a name already has
PoolMapSystemKeepFirst(n, a) ==
    /\ systemMap' = [x \in DOMAIN systemMap \cup {n} |->
                       IF x = n /\ n \notin DOMAIN systemMap THEN a ELSE systemMap[x]]
    /\ poolOp' = PoolOp("map_system", a, n)
    /\ UNCHANGED <<poolAgents, poolOrder, registered>>

\* AgentPool.map_system(system_name, agent_id)
PoolMapSystem(n, a) ==
    /\ systemMap' = [x \in DOMAIN systemMap \cup {n} |-> IF x = n THEN a ELSE systemMap[x]]
    /\ poolOp' = PoolOp("map_system", a, n)
    /\ UNCHANGED <<poolAgents, poolOrder, registered>>

\* AgentPool.get_by_agent_id(agent_id): the bridge, or NoBridge
GetByAgentId(a) == IF a \in DOMAIN poolAgents THEN poolAgents[a] ELSE NoBridge

\* AgentPool.get_any(): the first value of the dict, or NoBridge
GetAny == IF Len(poolOrder) > 0 THEN poolAgents[poolOrder[1]] ELSE NoBridge

\* AgentPool.connected_count
connected_count == Cardinality(DOMAIN poolAgents)

\* variant: the lookup by name gives any connected agent
GetBySystemAny(n) == GetAny

\* variant: the lookup uses the agents as they were before the last call
GetBySystemBefore(n) ==
    IF n \in DOMAIN systemMap /\ systemMap[n] \in DOMAIN poolOp.agents0
    THEN poolOp.agents0[systemMap[n]] ELSE NoBridge

\* AgentPool.get_by_system(system_name): the bridge, or NoBridge
GetBySystem(n) ==
    IF n \in DOMAIN systemMap /\ systemMap[n] # ""
    THEN IF systemMap[n] \in DOMAIN poolAgents THEN poolAgents[systemMap[n]] ELSE NoBridge
    ELSE NoBridge

\* the rows of table sap_systems: system name -> agent_id
SapSystems == [n \in {"ecc_prod"} |-> "agent_acs_token"]

\* main.py create_ai_session, lines 161-173, for target system n: what
\* the lookup of the agent's websocket ends in
CreateAiSession(n) ==
    IF n \notin DOMAIN SapSystems
    THEN [raised |-> TRUE, status |-> 404]
    ELSE IF SapSystems[n] \notin DOMAIN agentConnections
         THEN [raised |-> TRUE, status |-> 503]
         ELSE [raised |-> FALSE, status |-> 200]

\* agent_websocket, line 314: ws.accept() on the handshake of connection c
ServerAccept(c) ==
    /\ srv[c] = "none"
    /\ srv' = [srv EXCEPT ![c] = "accepted"]
    /\ UNCHANGED <<token, agentConnections, poolAgents, poolOrder, registered, systemMap, poolOp,
                   toServer, delivered, srvRead>>

\* agent_websocket, lines 316-324: the token check after ws.accept()
ServerAuth(c) ==
    /\ srv[c] = "accepted"
    /\ IF ValidateAgentToken(token[c]) = Null
       THEN /\ srv' = [srv EXCEPT ![c] = "closed_4001"]
            /\ UNCHANGED agentConnections
       ELSE /\ srv' = [srv EXCEPT ![c] = "open"]
            /\ agentConnections' =
                  [a \in DOMAIN agentConnections \cup {ValidateAgentToken(token[c])} |->
                      IF a = ValidateAgentToken(token[c]) THEN c ELSE agentConnections[a]]
    /\ UNCHANGED <<token, poolAgents, poolOrder, registered, systemMap, poolOp, toServer, delivered, srvRead>>

\* what the receive loop of agent_websocket does with a frame, lines
\* 329-354: no branch reaches AgentBridge.resolve_response
ServerBranch(f) ==
    CASE f.type = "agent_status" -> "log_status"
      [] f.type = "result" -> "process_agent_result"
      [] f.type = "diff" -> "store_diff"
      [] f.type = "pipeline" -> "update_pipeline"
      [] f.type = "error" -> "log_error"
      [] OTHER -> "ignored"

\* variant: frames are still read from a connection that has closed
ServerReceiveAfterClose(c, f) ==
    /\ srv[c] \in {"open", "closed"}
    /\ srvRead' = [srvRead EXCEPT ![c] = @ + 1]
    /\ UNCHANGED <<token, srv, agentConnections, poolAgents, poolOrder, registered, systemMap, poolOp,
                   toServer, delivered>>

\* agent_websocket, lines 328-354: one iteration of the receive loop of
\* connection c, receive_json returning frame f
ServerReceive(c, f) ==
    /\ srv[c] = "open"
    /\ srvRead' = [srvRead EXCEPT ![c] = @ + 1]
    /\ ServerBranch(f) \in
          {"log_status", "process_agent_result", "store_diff", "update_pipeline",
           "log_error", "ignored"}
    /\ UNCHANGED <<token, srv, agentConnections, poolAgents, poolOrder, registered, systemMap, poolOp,
                   toServer, delivered>>

\* frames an agent can send to the server
ServerFrames ==
    {Frame("agent_status", EmptySid, Null), Frame("result", 1, "value"),
     Frame("heartbeat", EmptySid, Null)}

\* agent_websocket, lines 356-359: receive_json raising WebSocketDisconnect
\* on connection c, and the finally clause
ServerDisconnect(c) ==
    /\ srv[c] = "open"
    /\ srv' = [srv EXCEPT ![c] = "closed"]
    /\ agentConnections' =
          [a \in DOMAIN agentConnections \ {ValidateAgentToken(token[c])} |->
              agentConnections[a]]
    /\ UNCHANGED <<token, poolAgents, poolOrder, registered, systemMap, poolOp, toServer, delivered, srvRead>>

\* ------------------------------------------------------------ end to end

\* the frame of the bridge as the raw message the tunnel receives
AsRaw(f) == [json |-> "object", type |-> f.type, session_id |-> f.session_id]

\* _send_status, lines 204-212
StatusFrame == Frame("agent_status", EmptySid, Null)

\* nothing is in flight and the agent waits for the next frame
Quiescent ==
    /\ delivered = Len(toAgent)
    /\ srvRead[1] = Len(toServer)
    /\ tpc = "recv"

\* the agent connects; the server accepts the handshake
E2EConnect ==
    /\ ConnectOk(MaxSessions)
    /\ ServerAccept(1)

\* the server closes with 4001, or enters its receive loop
E2EAuth ==
    /\ ServerAuth(1)
    /\ chan' = IF ValidateAgentToken(token[1]) = Null THEN "closed_err" ELSE chan
    /\ UNCHANGED <<running, tws, reconnect_delay, tpc, hb, reconnect_count,
                   stopPc, cur, msgs, attempts, sleeps, last, stats, beats>>

\* the agent's status frame goes out
E2EStatus ==
    /\ StatusSent
    /\ toServer' = IF SendResult = "sent" THEN Append(toServer, StatusFrame) ELSE toServer
    /\ UNCHANGED <<token, srv, agentConnections, poolAgents, poolOrder, registered, systemMap, poolOp,
                   delivered, srvRead>>

\* the scenario registers the authenticated connection in the pool
E2ERegister(a) ==
    /\ srv[1] = "open"
    /\ registered = 0
    /\ PoolRegister(a)
    /\ UNCHANGED <<token, srv, agentConnections, toServer, delivered, srvRead>>

\* the scenario maps the system to the agent
E2EMapSystem(n, a) ==
    /\ a \in DOMAIN poolAgents
    /\ n \notin DOMAIN systemMap
    /\ PoolMapSystem(n, a)
    /\ UNCHANGED <<token, srv, agentConnections, toServer, delivered, srvRead>>

\* the server looks the bridge up and starts send_command on it
E2ECall(n) ==
    /\ GetBySystem(n) # NoBridge
    /\ SendCommandBegin

\* the agent receives the next command frame and, for ping, answers it
E2ERecv ==
    /\ delivered < Len(toAgent)
    /\ Recv(AsRaw(toAgent[delivered + 1]))
    /\ delivered' = delivered + 1
    /\ toServer' = IF tpc' = "handler" THEN toServer ELSE toServer \o last'.replies
    /\ UNCHANGED <<token, srv, agentConnections, poolAgents, poolOrder, registered, systemMap, poolOp, srvRead>>

\* the dispatcher returns and the response goes out
E2EHandlerDone(o) ==
    /\ HandlerDone(o)
    /\ toServer' = toServer \o last'.replies
    /\ UNCHANGED <<token, srv, agentConnections, poolAgents, poolOrder, registered, systemMap, poolOp,
                   delivered, srvRead>>

\* the receive loop of the server takes the next frame of the agent
E2EServerReceive ==
    /\ srvRead[1] < Len(toServer)
    /\ ServerReceive(1, toServer[srvRead[1] + 1])

\* the deadline of the bridge is long against the handling of a frame:
\* it expires only when nothing else is left to happen
E2ETimeout(id) ==
    /\ Quiescent
    /\ WaitForTimeout(id)

E2ENext ==
    \/ TunnelStart /\ UNCHANGED <<bridgeVars, serverVars, clockVars, pipelineVars, writeVars>>
    \/ E2EConnect /\ UNCHANGED <<bridgeVars, clockVars, pipelineVars, writeVars>>
    \/ E2EAuth /\ UNCHANGED <<bridgeVars, clockVars, pipelineVars, writeVars>>
    \/ E2EStatus /\ UNCHANGED <<bridgeVars, clockVars, pipelineVars, writeVars>>
    \/ RecvError /\ UNCHANGED <<bridgeVars, serverVars, clockVars, pipelineVars, writeVars>>
    \/ \E a \in AgentIds : E2ERegister(a) /\ UNCHANGED <<bridgeVars, tunnelVars, clockVars, pipelineVars, writeVars>>
    \/ \E n \in Systems, a \in AgentIds : E2EMapSystem(n, a) /\ UNCHANGED <<bridgeVars, tunnelVars, clockVars, pipelineVars, writeVars>>
    \/ \E n \in Systems : E2ECall(n) /\ UNCHANGED <<tunnelVars, serverVars, clockVars, pipelineVars, writeVars>>
    \/ \E id \in CallIds, t \in BridgeCommandTypes :
          SendCommandSendOk(id, t) /\ UNCHANGED <<tunnelVars, serverVars, clockVars, pipelineVars, writeVars>>
    \/ E2ERecv /\ UNCHANGED <<bridgeVars, clockVars, pipelineVars, writeVars>>
    \/ \E o \in {"dispatch_ok", "dispatch_raise"} : E2EHandlerDone(o) /\ UNCHANGED <<bridgeVars, clockVars, pipelineVars, writeVars>>
    \/ E2EServerReceive /\ UNCHANGED <<bridgeVars, tunnelVars, clockVars, pipelineVars, writeVars>>
    \/ \E id \in CallIds : E2ETimeout(id) /\ UNCHANGED <<tunnelVars, serverVars, clockVars, pipelineVars, writeVars>>
    \/ \E id \in CallIds : SendCommandReturn(id) /\ UNCHANGED <<tunnelVars, serverVars, clockVars, pipelineVars, writeVars>>

\* --------------------------------------------- the handshake and the token

\* the connection the next handshake of the agent opens on the server
NextConn == CHOOSE c \in Conns : srv[c] = "none" /\ \A d \in Conns : d < c => srv[d] # "none"

\* the connection of the agent's present websocket
ThisConn == CHOOSE c \in Conns : srv[c] # "none" /\ \A d \in Conns : d > c => srv[d] = "none"

\* websockets.connect returns when the server has accepted the websocket
\* (main.py line 314), which it does before it looks at the token
AuthConnect ==
    /\ \E c \in Conns : srv[c] = "none"
    /\ ConnectOk(MaxAttempts)
    /\ ServerAccept(NextConn)

\* main.py lines 316-321: the token check; a rejected connection is closed
\* with code 4001, which the agent's websocket reports as an error
AuthCheck ==
    /\ \E c \in Conns : srv[c] = "accepted"
    /\ ServerAuth(ThisConn)
    /\ chan' = IF ValidateAgentToken(token[ThisConn]) = Null /\ chan = "open"
               THEN "closed_err" ELSE chan
    /\ UNCHANGED <<running, tws, reconnect_delay, tpc, hb, reconnect_count,
                   stopPc, cur, msgs, attempts, sleeps, last, stats, beats>>

\* the supervisor of the agent against the token check of the server
AuthNext ==
    \/ TunnelStart /\ UNCHANGED <<bridgeVars, serverVars, clockVars, pipelineVars, writeVars>>
    \/ ConnectFail(MaxAttempts) /\ UNCHANGED <<bridgeVars, serverVars, clockVars, pipelineVars, writeVars>>
    \/ AuthConnect /\ UNCHANGED <<bridgeVars, clockVars, pipelineVars, writeVars>>
    \/ AuthCheck /\ UNCHANGED <<bridgeVars, clockVars, pipelineVars, writeVars>>
    \/ StatusSent /\ UNCHANGED <<bridgeVars, serverVars, clockVars, pipelineVars, writeVars>>
    \/ RecvError /\ UNCHANGED <<bridgeVars, serverVars, clockVars, pipelineVars, writeVars>>
    \/ SleepDone /\ UNCHANGED <<bridgeVars, serverVars, clockVars, pipelineVars, writeVars>>

\* the supervisor loop of start() with stop() and the network, no traffic
SupervisorNext ==
    \/ TunnelStart /\ UNCHANGED <<bridgeVars, serverVars, clockVars, pipelineVars, writeVars>>
    \/ ConnectFail(MaxAttempts) /\ UNCHANGED <<bridgeVars, serverVars, clockVars, pipelineVars, writeVars>>
    \/ ConnectOk(MaxAttempts) /\ UNCHANGED <<bridgeVars, serverVars, clockVars, pipelineVars, writeVars>>
    \/ StatusSent /\ UNCHANGED <<bridgeVars, serverVars, clockVars, pipelineVars, writeVars>>
    \/ SleepDone /\ UNCHANGED <<bridgeVars, serverVars, clockVars, pipelineVars, writeVars>>
    \/ PeerCloseClean /\ UNCHANGED <<bridgeVars, serverVars, clockVars, pipelineVars, writeVars>>
    \/ PeerCloseError /\ UNCHANGED <<bridgeVars, serverVars, clockVars, pipelineVars, writeVars>>
    \/ RecvEnd /\ UNCHANGED <<bridgeVars, serverVars, clockVars, pipelineVars, writeVars>>
    \/ RecvError /\ UNCHANGED <<bridgeVars, serverVars, clockVars, pipelineVars, writeVars>>
    \/ StopBegin /\ UNCHANGED <<bridgeVars, serverVars, clockVars, pipelineVars, writeVars>>
    \/ StopEnd /\ UNCHANGED <<bridgeVars, serverVars, clockVars, pipelineVars, writeVars>>

\* the task of start() is cancelled at one of its suspension points, lines
\* 139-143: inside the with block the heartbeat is cancelled and the
\* websocket closed on the way out; CancelledError ends the loop (or start()
\* itself, from the backoff sleep); _ws and _running are left as they are
TaskCancel ==
    /\ tpc \in {"connecting", "status", "recv", "handler", "sleep"}
    /\ tpc' = "cancelled"
    /\ hb' = IF hb = "active" THEN "cancelled" ELSE hb
    /\ chan' = IF tpc \in {"status", "recv", "handler"} THEN WithExit ELSE chan
    /\ tws' = IF tpc \in {"status", "recv", "handler"} /\ tws = "live" THEN "stale" ELSE tws
    /\ cur' = NoMsg
    /\ UNCHANGED <<running, reconnect_delay, reconnect_count, stopPc, msgs,
                   attempts, sleeps, last, stats, beats>>

\* the supervisor loop with the cancellation of its task
CancelNext ==
    \/ SupervisorNext
    \/ TaskCancel /\ UNCHANGED <<bridgeVars, serverVars, clockVars, pipelineVars, writeVars>>

\* ----------------------------------------------------- the two deadlines

\* agent_bridge.py COMMAND_TIMEOUT
BRIDGE_COMMAND_TIMEOUT == 60

\* how long the handler of the agent runs for a command, in seconds
HandlerDurations == {30, 90, 150}

NoTime == 0 - 1

ClockInit ==
    /\ now = 0
    /\ timing = [id \in CallIds |->
                   [issuedAt |-> NoTime, deadline |-> NoTime, due |-> NoTime,
                    ran |-> NoTime, returnedAt |-> NoTime]]

\* variant: the bridge waits as long as the agent lets a handler run
DeadlineOfAgent(t) == t + COMMAND_TIMEOUT

\* send_command, line 62: when wait_for(future, timeout=COMMAND_TIMEOUT)
\* entered at time t expires
Deadline(t) == t + BRIDGE_COMMAND_TIMEOUT

\* tunnel.py _process_message, lines 180-190: when the frame for a command
\* received at time t goes out, the handler running d seconds
ReplyTime(t, d) == IF d < COMMAND_TIMEOUT THEN t + d ELSE t + COMMAND_TIMEOUT

\* tunnel.py _process_message, lines 180-190: the payload of that frame
ReplyData(d) == IF d < COMMAND_TIMEOUT THEN "result" ELSE "timed out"

\* send_command is called at time now
TimedBegin ==
    /\ SendCommandBegin
    /\ timing' = [timing EXCEPT ![issued + 1].issuedAt = now]
    /\ UNCHANGED now

\* the frame goes out and wait_for starts; the agent's handler will run d
\* seconds, and its frame comes back or is lost
TimedSend(id, type, d, replies) ==
    /\ SendCommandSendOk(id, type)
    /\ timing' = [timing EXCEPT ![id].deadline = Deadline(now),
                                ![id].ran = d,
                                ![id].due = IF replies THEN ReplyTime(now, d) ELSE NoTime]
    /\ UNCHANGED now

\* ws.send_json raises and send_command returns at once
TimedSendFail(id) ==
    /\ SendCommandSendFail(id)
    /\ timing' = [timing EXCEPT ![id].returnedAt = now]
    /\ UNCHANGED now

\* the deadline of wait_for is reached
TimedTimeout(id) ==
    /\ timing[id].deadline = now
    /\ WaitForTimeout(id)
    /\ UNCHANGED clockVars

\* the agent's frame for the call arrives and is handed to resolve_response
TimedArrive(id) ==
    /\ timing[id].due = now
    /\ ResolveResponse(id, ReplyData(timing[id].ran))
    /\ timing' = [timing EXCEPT ![id].due = NoTime]
    /\ UNCHANGED now

\* main.py agent_websocket, lines 343-344: the agent's frame arrives and
\* _process_agent_result only logs it
TimedArriveLogged(id) ==
    /\ timing[id].due = now
    /\ timing' = [timing EXCEPT ![id].due = NoTime]
    /\ UNCHANGED now

\* send_command returns
TimedReturn(id) ==
    /\ SendCommandReturn(id)
    /\ timing' = [timing EXCEPT ![id].returnedAt = now]
    /\ UNCHANGED now

\* the times at which something is still to happen
EventTimes ==
    {timing[id].due : id \in {i \in CallIds : timing[i].due > now}} \cup
    {timing[id].deadline : id \in {i \in CallIds : timing[i].deadline > now}}

\* something is still to happen at the present time: a coroutine that can
\* run, a deadline that is reached, a frame that arrives
Busy ==
    \E id \in CallIds :
        \/ calls[id].pc = "sending"
        \/ calls[id].pc = "waiting" /\ id \in DOMAIN pending /\ pending[id].st # "waiting"
        \/ calls[id].pc = "waiting" /\ timing[id].deadline = now
        \/ timing[id].due = now

\* time passes up to the next deadline or arrival
Tick ==
    /\ ~Busy
    /\ EventTimes # {}
    /\ now' = CHOOSE t \in EventTimes : \A u \in EventTimes : t <= u
    /\ UNCHANGED timing

TimedNext ==
    \/ TimedBegin /\ UNCHANGED <<tunnelVars, serverVars, pipelineVars, writeVars>>
    \/ \E id \in CallIds, t \in BridgeCommandTypes, d \in HandlerDurations, r \in BOOLEAN :
          TimedSend(id, t, d, r) /\ UNCHANGED <<tunnelVars, serverVars, pipelineVars, writeVars>>
    \/ \E id \in CallIds : TimedSendFail(id) /\ UNCHANGED <<tunnelVars, serverVars, pipelineVars, writeVars>>
    \/ \E id \in CallIds : TimedTimeout(id) /\ UNCHANGED <<tunnelVars, serverVars, pipelineVars, writeVars>>
    \/ \E id \in CallIds : TimedArrive(id) /\ UNCHANGED <<tunnelVars, serverVars, pipelineVars, writeVars>>
    \/ \E id \in CallIds : TimedArriveLogged(id) /\ UNCHANGED <<bridgeVars, tunnelVars, serverVars, pipelineVars, writeVars>>
    \/ \E id \in CallIds : TimedReturn(id) /\ UNCHANGED <<tunnelVars, serverVars, pipelineVars, writeVars>>
    \/ Tick /\ UNCHANGED <<bridgeVars, tunnelVars, serverVars, pipelineVars, writeVars>>

\* a result frame of the agent is read on its connection and the caller
\* of the bridge hands it to resolve_response
SessionResolve(id, data) ==
    /\ srvRead[1] < MaxCalls
    /\ ServerReceive(1, Frame("result", id, data))
    /\ ResolveResponse(id, data)

\* one bridge on the connection of its agent: calls, result frames, the
\* connection closing and the agent being unregistered
BridgeSessionNext ==
    \/ ServerAccept(1) /\ UNCHANGED <<bridgeVars, tunnelVars, clockVars, pipelineVars, writeVars>>
    \/ ServerAuth(1) /\ UNCHANGED <<bridgeVars, tunnelVars, clockVars, pipelineVars, writeVars>>
    \/ \E a \in AgentIds : E2ERegister(a) /\ UNCHANGED <<bridgeVars, tunnelVars, clockVars, pipelineVars, writeVars>>
    \/ registered > 0 /\ SendCommandBegin /\ UNCHANGED <<tunnelVars, serverVars, clockVars, pipelineVars, writeVars>>
    \/ \E id \in CallIds, t \in BridgeCommandTypes :
          srv[1] = "open" /\ SendCommandSendOk(id, t) /\ UNCHANGED <<tunnelVars, serverVars, clockVars, pipelineVars, writeVars>>
    \/ \E id \in CallIds : SendCommandSendFail(id) /\ UNCHANGED <<tunnelVars, serverVars, clockVars, pipelineVars, writeVars>>
    \/ \E id \in SentIds \cup {UnknownId}, data \in Data :
          SessionResolve(id, data) /\ UNCHANGED <<tunnelVars, clockVars, pipelineVars, writeVars>>
    \/ ServerDisconnect(1) /\ UNCHANGED <<bridgeVars, tunnelVars, clockVars, pipelineVars, writeVars>>
    \/ \E a \in AgentIds :
          /\ PoolUnregister(a)
          /\ UNCHANGED <<token, srv, agentConnections, toServer, delivered, srvRead>>
          /\ UNCHANGED <<bridgeVars, tunnelVars, clockVars, pipelineVars, writeVars>>
    \/ \E id \in CallIds : WaitForTimeout(id) /\ UNCHANGED <<tunnelVars, serverVars, clockVars, pipelineVars, writeVars>>
    \/ \E id \in CallIds : SendCommandReturn(id) /\ UNCHANGED <<tunnelVars, serverVars, clockVars, pipelineVars, writeVars>>

\* the handshakes, receive loops and teardowns of the inbound connections
RegistryNext ==
    \/ \E c \in Conns : ServerAccept(c) /\ UNCHANGED <<bridgeVars, tunnelVars, clockVars, pipelineVars, writeVars>>
    \/ \E c \in Conns : ServerAuth(c) /\ UNCHANGED <<bridgeVars, tunnelVars, clockVars, pipelineVars, writeVars>>
    \/ \E c \in Conns, f \in ServerFrames :
          /\ srvRead[c] < MaxFrames
          /\ ServerReceive(c, f)
          /\ UNCHANGED <<bridgeVars, tunnelVars, clockVars, pipelineVars, writeVars>>
    \/ \E c \in Conns : ServerDisconnect(c) /\ UNCHANGED <<bridgeVars, tunnelVars, clockVars, pipelineVars, writeVars>>

\* any sequence of register, unregister and map_system calls on one pool
PoolNext ==
    \/ \E a \in AgentIds :
          /\ registered < MaxRegs
          /\ PoolRegister(a)
          /\ UNCHANGED <<token, srv, agentConnections, toServer, delivered, srvRead>>
          /\ UNCHANGED <<bridgeVars, tunnelVars, clockVars, pipelineVars, writeVars>>
    \/ \E a \in AgentIds :
          /\ PoolUnregister(a)
          /\ UNCHANGED <<token, srv, agentConnections, toServer, delivered, srvRead>>
          /\ UNCHANGED <<bridgeVars, tunnelVars, clockVars, pipelineVars, writeVars>>
    \/ \E n \in Systems, a \in AgentIds :
          /\ PoolMapSystem(n, a)
          /\ UNCHANGED <<token, srv, agentConnections, toServer, delivered, srvRead>>
          /\ UNCHANGED <<bridgeVars, tunnelVars, clockVars, pipelineVars, writeVars>>

\* --------------------------------------------------------- specifications

\* ------------------------------------------------------------ PipelineRun

\* shared/models/base.py PipelineStepStatus
PipelineStepStatus == {"pass", "fail", "warn", "pending", "blocked", "running"}

\* the lists of at most n step statuses
StepLists(n) == UNION {[1..k -> PipelineStepStatus] : k \in 0..n}

\* PipelineRun(session_id, steps=...): a run whose steps are one of lists
PipelineInit(lists) ==
    /\ steps \in lists
    /\ run_passed = "none"

\* variant: a warning does not pass
StatusPassesStrict(st) == st = "pass"

\* s.status in (PipelineStepStatus.PASS, PipelineStepStatus.WARN)
StatusPasses(st) == st \in {"pass", "warn"}

\* all(... for s in self.steps) from step i on: False at the first step
\* that does not pass, True when the steps are exhausted
RECURSIVE AllFrom(_, _)
AllFrom(q, i) ==
    IF i > Len(q) THEN TRUE
    ELSE IF StatusPasses(q[i]) THEN AllFrom(q, i + 1) ELSE FALSE

\* PipelineRun.passed
passed == AllFrom(steps, 1)

\* the property passed of the run is read
ReadPassed ==
    /\ run_passed' = IF passed THEN "true" ELSE "false"
    /\ UNCHANGED steps

PipelineNext ==
    ReadPassed /\ UNCHANGED <<bridgeVars, tunnelVars, serverVars, clockVars, writeVars>>

\* -------------------------------------------------------------- sap_write

WriteIds == 1..MaxWrites

\* lock handles the SAP system hands out; the empty one is what lock_object
\* returns for a response without text and without a LOCK_HANDLE attribute
LockHandles == {"", "h1", "h2"}

NoHandle == "none"

\* no call of sap_write has been made
WriteInit ==
    writes = [w \in WriteIds |->
                [pc |-> "new", handle |-> NoHandle, calls |-> << >>, result |-> "none"]]

\* one call of the connector
AdtCall(call, handle, ok) == [call |-> call, handle |-> handle, ok |-> ok]

\* sap_write, lines 252-258: the system is resolved and has no ADT
\* connector, or object_type is no ObjectType: nothing is attempted
WriteRefused(w, why) ==
    /\ writes[w].pc = "new"
    /\ writes' = [writes EXCEPT ![w].pc = IF why = "no_adt" THEN "returned" ELSE "raised",
                                ![w].result = why]

\* sap_write, line 261: lock_object is awaited
WriteLockBegin(w) ==
    /\ writes[w].pc = "new"
    /\ writes' = [writes EXCEPT ![w].pc = "locking"]

\* lock_object returns handle h: the try block is entered
WriteLockOk(w, h) ==
    /\ writes[w].pc = "locking"
    /\ writes' = [writes EXCEPT ![w].pc = "writing",
                                ![w].handle = h,
                                ![w].calls = Append(@, AdtCall("lock", h, TRUE))]

\* lock_object raises: the exception leaves sap_write before the try block
WriteLockFail(w) ==
    /\ writes[w].pc = "locking"
    /\ writes' = [writes EXCEPT ![w].pc = "raised",
                                ![w].result = "lock_failed",
                                ![w].calls = Append(@, AdtCall("lock", NoHandle, FALSE))]

\* variant: the unlock is skipped when write_source raises
WriteSourceDoneNoFinally(w, ok) ==
    /\ writes[w].pc = "writing"
    /\ writes' = [writes EXCEPT ![w].pc = IF ok THEN "unlocking" ELSE "raised",
                                ![w].result = IF ok THEN "written" ELSE "write_failed",
                                ![w].calls = Append(@, AdtCall("write", writes[w].handle, ok))]

\* sap_write, lines 262-266: write_source returns or raises (the
\* cancellation of the handler included); the finally clause is next
WriteSourceDone(w, ok) ==
    /\ writes[w].pc = "writing"
    /\ writes' = [writes EXCEPT ![w].pc = "unlocking",
                                ![w].result = IF ok THEN "written" ELSE "write_failed",
                                ![w].calls = Append(@, AdtCall("write", writes[w].handle, ok))]

\* sap_write, lines 267-268: unlock_object with the local lock_handle
\* returns or raises, and sap_write returns or lets the exception out
WriteUnlockDone(w, ok) ==
    /\ writes[w].pc = "unlocking"
    /\ writes' = [writes EXCEPT
                    ![w].pc = IF ok /\ writes[w].result = "written" THEN "returned" ELSE "raised",
                    ![w].calls = Append(@, AdtCall("unlock", writes[w].handle, ok))]

WriteNext ==
    \/ \E w \in WriteIds, why \in {"no_adt", "bad_type"} :
          WriteRefused(w, why)
          /\ UNCHANGED <<bridgeVars, tunnelVars, serverVars, clockVars, pipelineVars>>
    \/ \E w \in WriteIds :
          WriteLockBegin(w)
          /\ UNCHANGED <<bridgeVars, tunnelVars, serverVars, clockVars, pipelineVars>>
    \/ \E w \in WriteIds, h \in LockHandles :
          WriteLockOk(w, h)
          /\ UNCHANGED <<bridgeVars, tunnelVars, serverVars, clockVars, pipelineVars>>
    \/ \E w \in WriteIds :
          WriteLockFail(w)
          /\ UNCHANGED <<bridgeVars, tunnelVars, serverVars, clockVars, pipelineVars>>
    \/ \E w \in WriteIds, ok \in BOOLEAN :
          WriteSourceDone(w, ok)
          /\ UNCHANGED <<bridgeVars, tunnelVars, serverVars, clockVars, pipelineVars>>
    \/ \E w \in WriteIds, ok \in BOOLEAN :
          WriteUnlockDone(w, ok)
          /\ UNCHANGED <<bridgeVars, tunnelVars, serverVars, clockVars, pipelineVars>>

\* the state after construction of the bridge, the tunnel, the server and
\* a pipeline run with one of the given lists of steps
InitWith(tokens, lists) ==
    /\ BridgeInit /\ TunnelInit /\ ServerInit(tokens) /\ ClockInit
    /\ PipelineInit(lists) /\ WriteInit

\* the state after construction of the bridge, the tunnel and the server
InitAll(tokens) == InitWith(tokens, {<< >>})

\* an agent that connects to a server which checks its token
SpecAuth ==
    /\ InitAll(Tokens)
    /\ [][AuthNext]_vars

\* the supervisor, stop() and the cancellation of the task of start()
SpecCancel ==
    /\ InitAll({"acs_token"})
    /\ [][CancelNext]_vars

\* calls of the tool sap_write, each against the ADT connector
SpecWrite ==
    /\ InitAll({"acs_token"})
    /\ [][WriteNext]_vars

\* pipeline runs of up to MaxSteps steps
SpecPipeline ==
    /\ InitWith({"acs_token"}, StepLists(MaxSteps))
    /\ [][PipelineNext]_vars

\* one AgentBridge, its callers and the frames that answer them
SpecBridge ==
    /\ InitAll({"acs_token"})
    /\ [][BridgeNext]_vars

\* the reconnection supervisor of one WebSocketTunnel
SpecSupervisor ==
    /\ InitAll({"acs_token"})
    /\ [][SupervisorNext]_vars

\* the supervisor whose own steps are always taken in the end
SpecSupervisorLive ==
    /\ InitAll({"acs_token"})
    /\ [][SupervisorNext]_vars
    /\ WF_tunnelVars(ConnectFail(MaxAttempts) \/ ConnectOk(MaxAttempts))
    /\ WF_tunnelVars(StatusSent) /\ WF_tunnelVars(SleepDone) /\ WF_tunnelVars(RecvEnd)
    /\ WF_tunnelVars(RecvError) /\ WF_tunnelVars(StopEnd)

\* the server's registry of agent connections
SpecRegistry ==
    /\ InitAll(Tokens)
    /\ [][RegistryNext]_vars

\* one AgentPool
SpecPool ==
    /\ InitAll({"acs_token"})
    /\ [][PoolNext]_vars

\* one bridge and the agent's handlers under a clock
SpecTimed ==
    /\ InitAll({"acs_token"})
    /\ [][TimedNext]_vars

\* one bridge and the connection of its agent
SpecBridgeSession ==
    /\ InitAll({"acs_token"})
    /\ [][BridgeSessionNext]_vars

\* agent, server and bridge together over a working network
SpecE2E ==
    /\ InitAll(Tokens)
    /\ [][E2ENext]_vars

\* one WebSocketTunnel, the network and the cloud's frames
SpecTunnel ==
    /\ InitAll({"acs_token"})
    /\ [][TunnelNext]_vars

\* ------------------------------------------------- claims on AgentBridge

InFlight == {id \in CallIds : calls[id].pc \in {"sending", "waiting"}}

C1_OutcomeInv ==
    /\ \A id \in CallIds :
         (calls[id].pc = "returned" /\ id \in SentIds) =>
            \/ /\ calls[id].outcome = "value"
               /\ trueCount[id] = 1
               /\ calls[id].result = resolvedWith[id]
               /\ ~timedOut[id]
            \/ /\ calls[id].outcome = "null"
               /\ calls[id].result = Null
               /\ timedOut[id]
               /\ trueCount[id] = 0
    /\ \A id \in CallIds : timedOut[id] => trueCount[id] = 0

C1_LateResolveStep ==
    \A id \in CallIds, d \in Data :
        (timedOut[id] /\ ResolveResponse(id, d)) =>
            /\ op'.ret = "false"
            /\ pending' = pending
            /\ calls' = calls

\* C1: every command sent through send_command ends in exactly one of two
\* ways: one resolve_response returned True for its id and the call returns
\* that data, or the deadline expired and the call returns null; never both,
\* never neither. A resolve_response for an id that already timed out
\* returns False and changes nothing.
C1_ExactlyOneOutcome == []C1_OutcomeInv /\ [][C1_LateResolveStep]_vars

\* C1 witness: one call returned the resolved value, another timed out and a
\* late resolve_response for it has just returned False
C1_Witness ==
    /\ \E a \in CallIds : calls[a].pc = "returned" /\ calls[a].outcome = "value"
    /\ op.name = "resolve_response" /\ op.ret = "false"
    /\ op.id \in CallIds /\ timedOut[op.id] /\ calls[op.id].pc = "returned"

C3_ResolveStep ==
    \A id \in CallIds \cup {UnknownId}, d \in Data :
        ResolveResponse(id, d) =>
            /\ (op'.ret = "true") <=>
                  (id \in DOMAIN pending /\ pending[id].st = "waiting")
            /\ (op'.ret = "false") => (pending' = pending /\ calls' = calls)
            /\ DOMAIN pending' = DOMAIN pending
            /\ \A j \in DOMAIN pending \ {id} : pending'[j] = pending[j]

\* C3: resolve_response(id, data) returns True iff a pending waiter for id
\* exists and is not yet resolved; otherwise it returns False and leaves
\* the table and every other waiter unchanged; at most one resolve_response
\* per id ever returns True.
C3_ResolveAtMostOnce ==
    [][C3_ResolveStep]_vars /\ [](\A id \in CallIds \cup {UnknownId} : trueCount[id] <= 1)

\* C3 witness: a duplicate resolve_response on an already resolved waiter
\* that is still in the table has returned False
C3_Witness ==
    /\ op.name = "resolve_response" /\ op.ret = "false"
    /\ op.id \in DOMAIN pending /\ pending[op.id].st = "done"
    /\ trueCount[op.id] = 1

\* C4: a pending entry exists exactly while its send_command is in flight;
\* pending_count equals the number of calls in flight.
C4_PendingIsInFlight ==
    /\ DOMAIN pending = InFlight
    /\ pending_count = Cardinality(InFlight)

\* C4 witness: all calls ended, one by timeout and one by send failure, and
\* the table is empty again
C4_Witness ==
    /\ pending_count = 0
    /\ \E a \in CallIds : calls[a].pc = "returned" /\ timedOut[a]
    /\ \E b \in CallIds : calls[b].pc = "returned" /\ b \notin SentIds

\* C5: send_command never raises on deadline expiry or send failure: it
\* returns null; the caller sees a result value or null only.
C5_NeverRaises ==
    \A id \in CallIds :
        calls[id].pc = "returned" =>
            /\ calls[id].outcome \in {"value", "null"}
            /\ (timedOut[id] \/ id \notin SentIds) =>
                  (calls[id].outcome = "null" /\ calls[id].result = Null)
            /\ calls[id].outcome = "value" => calls[id].result \in Data

\* C5 witness: one call ended by deadline, one by send failure
C5_Witness ==
    /\ \E a \in CallIds : calls[a].pc = "returned" /\ timedOut[a] /\ calls[a].outcome = "null"
    /\ \E b \in CallIds : calls[b].pc = "returned" /\ b \notin SentIds /\ calls[b].outcome = "null"

\* -------------------------------------------------- claim on the relay

\* C2: with the agent connected, registered and ecc_prod mapped to it, a
\* ping call is delivered, answered with the same correlation id, the
\* server's receive loop resolves the waiter and the call returns "pong"
\* within the deadline (it does not return null).
C2_PingReturnsPong ==
    \A id \in CallIds :
        (/\ calls[id].pc = "returned"
         /\ \E k \in 1..Len(toAgent) :
               toAgent[k].session_id = id /\ toAgent[k].type = "ping") =>
            calls[id].result = "pong"

\* ------------------------------------------- claims on the agent's loop

ResultOrErrorCount(fs) ==
    Cardinality({k \in 1..Len(fs) : fs[k].type \in {"result", "error"}})

\* C6: every command frame received while the session stays open produces
\* exactly one result or error frame, whatever the handler returns or raises.
C6_ExactlyOneReply ==
    (last.msg.json = "object" /\ last.open) => ResultOrErrorCount(last.replies) = 1

\* C7: every response frame the agent sends (result, error after a handler
\* exception, error after a handler timeout, reply to ping) carries the
\* session_id of the command frame it answers.
C7_SameCorrelationId ==
    \A k \in 1..Len(last.replies) : last.replies[k].session_id = last.msg.session_id

\* C7 witness: the error frame for a handler exception has gone out for a
\* command frame that carried a session id
C7_Witness ==
    /\ last.outcome = "raise"
    /\ last.msg.session_id # EmptySid
    /\ Len(last.replies) = 1
    /\ last.replies[1].type = "error"

\* C8: a command whose kind has no handler is answered with a frame of
\* kind error (not result) with the request's correlation id, without
\* raising and without closing the session.
C8_UnknownKindIsError ==
    (/\ last.msg.json = "object"
     /\ last.msg.type \notin KnownKinds
     /\ last.outcome \in {"dispatch_ok", "dispatch_raise"}
     /\ last.open) =>
        /\ ~last.escaped
        /\ Len(last.replies) = 1
        /\ last.replies[1].session_id = last.msg.session_id
        /\ last.replies[1].type = "error"

\* C9: handler success gives a result frame with the return value, a
\* handler exception an error frame with the failure description, a
\* handler running past the 120 s timeout an error frame whose payload
\* tells the timeout from a handler failure; the session stays connected.
C9_OutcomeToFrame ==
    (/\ last.msg.json = "object"
     /\ last.msg.type \in KnownKinds \ {"ping"}
     /\ last.open) =>
        /\ ~last.escaped
        /\ Len(last.replies) = 1
        /\ last.outcome \in {"dispatch_ok", "none"} =>
              (last.replies[1].type = "result" /\ last.replies[1].payload = "value")
        /\ last.outcome \in {"dispatch_raise", "raise", "raise_timeout"} =>
              (last.replies[1].type = "error" /\ last.replies[1].payload = "failure")
        /\ last.outcome = "slow" =>
              (last.replies[1].type = "error" /\ last.replies[1].payload = "timed out")

\* ------------------------------------------- claims on the supervisor

Connected == tpc \in {"status", "recv", "handler"}

DoubledDelay(d) == IF d * 2 < RECONNECT_DELAY_MAX THEN d * 2 ELSE RECONNECT_DELAY_MAX

C10_DelayInv ==
    /\ reconnect_delay >= RECONNECT_DELAY_INITIAL
    /\ reconnect_delay <= RECONNECT_DELAY_MAX
    /\ \A k \in 1..Len(sleeps) :
          /\ (k = 1 /\ sleeps[k] # 0) => sleeps[k] = RECONNECT_DELAY_INITIAL
          /\ (k > 1 /\ sleeps[k] # 0 /\ sleeps[k - 1] # 0) =>
                 sleeps[k] = DoubledDelay(sleeps[k - 1])
          /\ (k > 1 /\ sleeps[k] # 0 /\ sleeps[k - 1] = 0) =>
                 sleeps[k] = RECONNECT_DELAY_INITIAL

C10_DelayStep ==
    /\ (tpc = "sleep" /\ tpc' # "sleep") => reconnect_delay' = DoubledDelay(reconnect_delay)
    /\ (tpc = "connecting" /\ Connected') => reconnect_delay' = RECONNECT_DELAY_INITIAL

C10_LossStep ==
    (Connected /\ ~Connected' /\ stopPc = "idle") =>
        (tpc' = "sleep" /\ sleeps'[Len(sleeps')] = RECONNECT_DELAY_INITIAL)

\* C10: the reconnect delay starts at 2 s, doubles after each backoff
\* sleep, stays within 2..60 s, is reset to 2 s by a successful connect
\* (sleeps 2,4,8,16,32 after five failures, 2 after a success), and the loss
\* of an established connection is always followed by a 2 s backoff.
C10_Backoff == []C10_DelayInv /\ [][C10_DelayStep]_vars /\ [][C10_LossStep]_vars

C11_CloseStep ==
    (running /\ Connected /\ ~Connected') => (tpc' = "sleep" /\ hb' # "active")

C11_AttemptStep ==
    (tpc' = "connecting" /\ tpc # "connecting") => tpc \in {"idle", "sleep"}

C11_SleepInv ==
    tpc = "sleep" => sleeps[Len(sleeps)] >= RECONNECT_DELAY_INITIAL

\* C11: whenever the channel closes (cleanly or by error) or the consume
\* loop raises, the supervisor cancels the heartbeat and goes to its backoff
\* sleep before the next connection attempt; every connection attempt but
\* the first follows a sleep of at least the initial delay.
C11_NoBusyReconnect ==
    []C11_SleepInv /\ [][C11_CloseStep]_vars /\ [][C11_AttemptStep]_vars

C12_SecondCallStep == stopPc = "done" => stopPc' = "done"

C12_OnlyStopStep == (tpc' = "done" /\ tpc # "done") => stopPc # "idle"

C12_AfterStopStep ==
    stopPc # "idle" =>
        /\ ~(tpc' = "connecting" /\ tpc # "connecting")
        /\ ~(Connected' /\ ~Connected)

\* C12: a second stop() finds nothing left to do, start() ends only after
\* stop() was called, and once stop() was called no connection attempt is
\* started and the supervisor does not become connected, whichever state
\* stop() was called in.
C12_StopIsFinal ==
    [][C12_SecondCallStep]_vars /\ [][C12_OnlyStopStep]_vars /\ [][C12_AfterStopStep]_vars

C13_ClosedAtExit == tpc = "done" => chan # "open"

\* C13: once stop() has been called, in whichever state, the loop of
\* start() ends in the end, and when it has ended the channel is not open.
C13_StopTerminates ==
    /\ (stopPc # "idle" /\ attempts < MaxAttempts) ~> (tpc = "done")
    /\ []C13_ClosedAtExit

\* ------------------------------------- claims on the registry and the pool

\* the authenticated connections of agent a the server has not seen close
LiveConns(a) == {c \in Conns : srv[c] = "open" /\ ValidateAgentToken(token[c]) = a}

\* C14: the registry has an entry for an agent id exactly while an
\* authenticated connection of that agent is live, and the entry is a live
\* connection of that agent; the teardown of an older connection of the
\* same id leaves the entry of the newer live connection in place.
C14_EntryWhileLive ==
    \A a \in {ValidateAgentToken(t) : t \in Tokens} \ {Null} :
        /\ (a \in DOMAIN agentConnections) <=> (LiveConns(a) # {})
        /\ (a \in DOMAIN agentConnections) => (agentConnections[a] \in LiveConns(a))

\* the names _system_map maps to agent a, in the map m
PointingAt(m, a) == {n \in DOMAIN m : m[n] = a}

\* C15: unregister(agent_id) removes the agent and every mapping that
\* points at it, after which get_by_system is null for each of those names;
\* the other agents' entries and the mappings pointing at other agents are
\* as they were.
C15_UnregisterPurges ==
    poolOp.name = "unregister" =>
        /\ poolOp.agent \notin DOMAIN poolAgents
        /\ \A n \in PointingAt(poolOp.map0, poolOp.agent) :
              n \notin DOMAIN systemMap /\ GetBySystem(n) = NoBridge
        /\ \A n \in DOMAIN poolOp.map0 \ PointingAt(poolOp.map0, poolOp.agent) :
              n \in DOMAIN systemMap /\ systemMap[n] = poolOp.map0[n]
        /\ DOMAIN systemMap \subseteq DOMAIN poolOp.map0
        /\ DOMAIN poolAgents = DOMAIN poolOp.agents0 \ {poolOp.agent}
        /\ \A b \in DOMAIN poolAgents : poolAgents[b] = poolOp.agents0[b]

\* an agent with a registered bridge, a name mapped to it and a name mapped
\* to another registered agent has just been unregistered
C15_Witness ==
    /\ poolOp.name = "unregister"
    /\ poolOp.agent \in DOMAIN poolOp.agents0
    /\ PointingAt(poolOp.map0, poolOp.agent) # {}
    /\ \E n \in DOMAIN systemMap : GetBySystem(n) # NoBridge

\* C16: whatever register, unregister and map_system calls were made, a
\* system name has at most one agent, and map_system(name, b) on a name
\* mapped to a replaces the mapping: get_by_system(name) then gives the
\* bridge of b (null when b has none) and the other names keep theirs.
C16_MapReplaces ==
    /\ \A n \in DOMAIN systemMap : systemMap[n] \in AgentIds
    /\ poolOp.name = "map_system" =>
          /\ systemMap[poolOp.system] = poolOp.agent
          /\ GetBySystem(poolOp.system) =
                IF poolOp.agent \in DOMAIN poolAgents
                THEN poolAgents[poolOp.agent] ELSE NoBridge
          /\ DOMAIN systemMap = DOMAIN poolOp.map0 \cup {poolOp.system}
          /\ \A n \in DOMAIN poolOp.map0 \ {poolOp.system} : systemMap[n] = poolOp.map0[n]
          /\ poolAgents = poolOp.agents0

\* a name mapped to a registered agent has just been mapped to another
\* registered agent
C16_Witness ==
    /\ poolOp.name = "map_system"
    /\ poolOp.system \in DOMAIN poolOp.map0
    /\ poolOp.map0[poolOp.system] # poolOp.agent
    /\ poolOp.map0[poolOp.system] \in DOMAIN poolAgents
    /\ poolOp.agent \in DOMAIN poolAgents
    /\ GetBySystem(poolOp.system) # poolAgents[poolOp.map0[poolOp.system]]

\* names never mapped, and names mapped to an agent without a bridge
UnknownSystems == Systems \ DOMAIN systemMap
OfflineSystems == {n \in DOMAIN systemMap : systemMap[n] \notin DOMAIN poolAgents}

\* C17: the lookup of a name that was never mapped and the lookup of a
\* name whose agent is not connected give outcomes that differ from each
\* other, for the pool and for create_ai_session, and neither outcome is a
\* raised exception.
C17_UnknownIsNotOffline ==
    /\ \A n \in UnknownSystems, m \in OfflineSystems : GetBySystem(n) # GetBySystem(m)
    /\ \A n \in Systems \ DOMAIN SapSystems, m \in DOMAIN SapSystems :
          /\ CreateAiSession(n).status # 200 => ~CreateAiSession(n).raised
          /\ CreateAiSession(m).status # 200 =>
                (~CreateAiSession(m).raised /\ CreateAiSession(m).status # CreateAiSession(n).status)

\* the connections whose handshake has no token or one without the prefix
Rejected == {c \in Conns : token[c] \in {"", "other"}}

\* C18: a connection whose token is missing or invalid is closed with code
\* 4001 right after the handshake: its receive loop never runs, no frame of
\* it is processed, and the registry never holds it, so that no command is
\* sent on it.
C18_RejectedBeforeFrames ==
    \A c \in Rejected :
        /\ srv[c] \in {"none", "accepted", "closed_4001"}
        /\ srvRead[c] = 0
        /\ \A a \in DOMAIN agentConnections : agentConnections[a] # c
        /\ \A n \in Systems :
              ~CreateAiSession(n).raised => agentConnections[SapSystems[n]] # c

\* a connection without a valid token was closed with 4001 while another
\* one is registered and has had a frame processed
C18_Witness ==
    \E c \in Rejected, d \in Conns :
        /\ srv[c] = "closed_4001"
        /\ srv[d] = "open"
        /\ srvRead[d] > 0
        /\ \E a \in DOMAIN agentConnections : agentConnections[a] = d

\* ------------------------------------ claims on the session of the tunnel

\* a handler is running on an open channel that has a further frame for it
HandlerRunning == tpc = "handler" /\ chan = "open" /\ tws = "live"

\* C19: while the handler of a command is still running, the receive loop
\* can take the next frame and the heartbeat task can send its heartbeat:
\* neither waits for the handler to finish.
C19_HandlerDoesNotStall ==
    /\ (HandlerRunning /\ msgs < MaxMsgs) => ENABLED (\E raw \in TunnelInputs : Recv(raw))
    /\ (HandlerRunning /\ hb = "active" /\ beats < MaxBeats) => ENABLED Heartbeat

C20_ConnectStep ==
    /\ (tpc = "connecting" /\ tpc' = "status") =>
          stats' = [TunnelStats EXCEPT !.connected_since = attempts']
    /\ reconnect_count' >= reconnect_count

\* C20: every connect that follows a disconnect starts the session with
\* the statistics of a fresh session (no messages, no commands, no
\* heartbeat, connected_since of this connect), and reconnect_count is
\* never reset.
C20_StatsResetOnReconnect == [][C20_ConnectStep]_vars

\* a frame is about to be handed to _send
SendPending == tpc = "status" \/ hb = "active"

C21_ReportedInv ==
    (SendPending /\ SendResult # "sent") => SendReturn = "NotConnected"

C21_SenderStep ==
    /\ (tpc = "status" /\ SendResult # "sent") => tpc' # "done"
    /\ (hb = "active" /\ beats' = beats + 1 /\ SendResult # "sent" /\ running) => hb' = "active"

\* C21: a send without a live channel ends in a NotConnected outcome that
\* its caller gets to see, the frame is dropped, and neither the task that
\* sent nor the loop of start() is ended by it.
C21_NotConnectedAdvisory == []C21_ReportedInv /\ [][C21_SenderStep]_vars

\* ------------------------------------------ claims on calls and closure

\* the calls that wait for their response
StillPending == {id \in DOMAIN pending : pending[id].st = "waiting" /\ calls[id].pc = "waiting"}

C22_ClosureStep ==
    (\/ (srv[1] = "open" /\ srv'[1] = "closed")
     \/ (poolOp' # poolOp /\ poolOp'.name = "unregister"))
        => UNCHANGED <<pending, calls, timedOut, trueCount>>

C22_PendingStep ==
    \A id \in StillPending :
        (srv[1] = "closed" /\ (id \notin DOMAIN pending' \/ pending'[id] # pending[id])) =>
            (id \in DOMAIN pending' /\ pending'[id].st = "cancelled" /\ timedOut'[id])

C22_ReturnInv ==
    \A id \in CallIds :
        (timedOut[id] /\ calls[id].pc = "returned") =>
            (calls[id].result = Null /\ trueCount[id] = 0)

\* C22: the closing of the agent's connection and the unregistering of the
\* agent leave the pending calls as they are; after the closure a pending
\* call leaves its state only by its own deadline, and then returns null.
C22_ClosureLeavesPending ==
    []C22_ReturnInv /\ [][C22_ClosureStep]_vars /\ [][C22_PendingStep]_vars

\* the connection has closed and the agent was unregistered while a call
\* is still pending
C22_Witness ==
    /\ srv[1] = "closed"
    /\ poolOp.name = "unregister"
    /\ StillPending # {}

\* the frame now arriving for call id comes from a handler that ran longer
\* than the deadline of the bridge and shorter than the agent's own timeout
C23_Late(id) ==
    /\ timing[id].due = now
    /\ timing[id].ran > BRIDGE_COMMAND_TIMEOUT
    /\ timing[id].ran < COMMAND_TIMEOUT

C23_ReturnInv ==
    /\ BRIDGE_COMMAND_TIMEOUT < COMMAND_TIMEOUT
    /\ \A id \in CallIds :
        /\ timing[id].returnedAt # NoTime =>
              timing[id].returnedAt - timing[id].issuedAt <= BRIDGE_COMMAND_TIMEOUT
        /\ calls[id].pc \in {"sending", "waiting"} =>
              now - timing[id].issuedAt <= BRIDGE_COMMAND_TIMEOUT

C23_LateStep ==
    \A id \in CallIds :
        (C23_Late(id) /\ timing'[id].due = NoTime) =>
            /\ calls[id].pc = "returned"
            /\ calls[id].result = Null
            /\ UNCHANGED <<pending, calls, trueCount, resolvedWith>>
            /\ (op' # op => op' = [name |-> "resolve_response", id |-> id, ret |-> "false"])

C24_Received ==
    /\ tpc = "recv"
    /\ msgs' = msgs + 1
    /\ running
    /\ tws = "live"
    /\ chan = "open"

C24_FrameStep ==
    C24_Received => (tpc' \in {"recv", "handler"} /\ tws' = "live" /\ chan' = "open")

C24_HandlerStep ==
    (tpc = "handler" /\ tpc' # "handler" /\ running /\ tws = "live" /\ chan = "open"
        /\ last'.outcome = "raise")
        => (tpc' = "recv" /\ last'.replies = <<ErrorFrame(cur)>>)

C24_TransportStep ==
    (tpc = "recv" /\ chan = "closed_err" /\ tpc' # tpc) => tpc' = "sleep"

\* C24: a message that is not JSON, not a JSON object or lacks fields never
\* takes an exception out of the receive loop and never closes the session;
\* a transport error leads to the backoff and a handler error to an error
\* frame.
C24_FaultsContained ==
    [][C24_FrameStep /\ C24_HandlerStep /\ C24_TransportStep]_vars

\* start() is inside the message loop of a connection whose channel is open
C25_Connected == tpc \in {"recv", "handler"} /\ tws = "live" /\ chan = "open"

C25_OnlyWhileConnected == hb = "active" => tpc \in {"recv", "handler"}

C25_AlwaysWhileConnected == C25_Connected => hb = "active"

\* C25: a heartbeat task is active exactly while the supervisor is inside
\* the message loop of a connection: it is started on entering it and
\* cancelled on leaving it, and none is active in backoff or after the stop.
C25_HeartbeatWhileConnected ==
    C25_OnlyWhileConnected /\ C25_AlwaysWhileConnected

\* C26: a heartbeat frame that is received is informational: the side that
\* receives it sends no frame in reply and stays in its session.
C26_HeartbeatInformational ==
    last.msg.type = "heartbeat" => (last.replies = << >> /\ ~last.escaped)

\* what get_by_agent_id(a) returned before the last pool operation
C27_Before(a) == IF a \in DOMAIN poolOp.agents0 THEN poolOp.agents0[a] ELSE NoBridge

C27_OthersKept == \A x \in AgentIds \ {poolOp.agent} : GetByAgentId(x) = C27_Before(x)

\* C27: a new pool has connected_count 0 and get_any() null; register(id)
\* makes id count once and get_by_agent_id(id) the new bridge, unregister(id)
\* takes id out of the count and makes get_by_agent_id(id) null, and neither
\* changes another id; get_any() is a bridge exactly when connected_count is
\* positive.
C27_PoolQueries ==
    /\ poolOp.name = "none" => (connected_count = 0 /\ GetAny = NoBridge)
    /\ poolOp.name = "register" =>
          /\ connected_count = Cardinality(DOMAIN poolOp.agents0 \cup {poolOp.agent})
          /\ GetByAgentId(poolOp.agent) = registered
          /\ C27_OthersKept
    /\ poolOp.name = "unregister" =>
          /\ connected_count = Cardinality(DOMAIN poolOp.agents0 \ {poolOp.agent})
          /\ GetByAgentId(poolOp.agent) = NoBridge
          /\ C27_OthersKept
    /\ poolOp.name = "map_system" =>
          /\ connected_count = Cardinality(DOMAIN poolOp.agents0)
          /\ \A x \in AgentIds : GetByAgentId(x) = C27_Before(x)
    /\ GetAny # NoBridge <=> connected_count > 0

\* two agents were registered, one of them twice; the other was then
\* unregistered and get_any() gives the newest bridge of the one that is left
C27_Witness ==
    /\ poolOp.name = "unregister"
    /\ Cardinality(DOMAIN poolOp.agents0) = 2
    /\ connected_count = 1
    /\ registered = 3
    /\ GetAny = registered

C28_AfterMap ==
    (poolOp.name = "map_system" /\ poolOp.agent \in DOMAIN poolAgents) =>
        /\ GetBySystem(poolOp.system) = GetByAgentId(poolOp.agent)
        /\ GetBySystem(poolOp.system) # NoBridge

\* the step is neither map_system(n, ...) nor unregister(a)
C28_Other(n, a) ==
    /\ ~(poolOp'.name = "map_system" /\ poolOp'.system = n)
    /\ ~(poolOp'.name = "unregister" /\ poolOp'.agent = a)

C28_KeptStep ==
    \A n \in Systems, a \in AgentIds :
        (/\ n \in DOMAIN systemMap
         /\ systemMap[n] = a
         /\ a \in DOMAIN poolAgents
         /\ GetBySystem(n) = GetByAgentId(a)
         /\ C28_Other(n, a))
            => (GetBySystem(n)' = GetByAgentId(a)' /\ GetBySystem(n)' # NoBridge)

\* C28: after map_system(name, id) with id registered, get_by_system(name)
\* gives the bridge get_by_agent_id(id) gives, and goes on doing so until
\* the name is mapped again or the agent is unregistered.
C28_SystemRoutesToAgent ==
    []C28_AfterMap /\ [][C28_KeptStep]_vars

\* a name was mapped to a registered agent, the agent has registered again
\* and the name gives its new bridge
C28_Witness ==
    /\ poolOp.name = "register"
    /\ poolOp.agent \in DOMAIN poolOp.agents0
    /\ \E n \in DOMAIN poolOp.map0 :
          /\ poolOp.map0[n] = poolOp.agent
          /\ GetBySystem(n) = registered
          /\ GetBySystem(n) # poolOp.agents0[poolOp.agent]

\* C29: a tunnel that was constructed and not started is not connected and
\* has all its counters at zero; a tunnel whose stop() has completed is not
\* connected.
C29_IdleAndStopped ==
    /\ tpc = "idle" =>
          /\ ~is_connected
          /\ stats = TunnelStats
          /\ stats.messages_sent = 0
          /\ reconnect_count = 0
    /\ stopPc = "done" => ~is_connected

\* stop() has completed on a tunnel that had received messages, and the
\* connect that was in flight has given start() a websocket since
C29_Witness ==
    /\ stopPc = "done"
    /\ stats.messages_received > 0
    /\ tws = "live"
    /\ ~is_connected

\* C30: passed is true exactly when every step of the run has status pass
\* or warn: one step that is fail, pending, blocked or running makes it
\* false, and a run without steps passes.
C30_PassedIffAllPassOrWarn ==
    run_passed # "none" =>
        /\ run_passed = "true" <=>
              \A i \in 1..Len(steps) : steps[i] \in {"pass", "warn"}
        /\ (\E i \in 1..Len(steps) : steps[i] \in {"fail", "pending", "blocked", "running"})
              => run_passed = "false"
        /\ steps = << >> => run_passed = "true"

\* passed was read on a run of MaxSteps steps that pass, one of them with a
\* warning
C30_Witness ==
    /\ run_passed = "true"
    /\ Len(steps) = MaxSteps
    /\ \E i \in 1..Len(steps) : steps[i] = "warn"

\* the connector calls of kind c that call w of sap_write has made
C31_Calls(w, c) == {i \in 1..Len(writes[w].calls) : writes[w].calls[i].call = c}

\* call w of sap_write has ended
C31_Ended(w) == writes[w].pc \in {"returned", "raised"}

C31_Order(w) ==
    LET q == writes[w].calls IN
    /\ \A i \in C31_Calls(w, "write") : i = 2 /\ q[1].call = "lock" /\ q[1].ok
    /\ \A i \in C31_Calls(w, "unlock") :
          /\ i = 3
          /\ q[1].call = "lock" /\ q[1].ok
          /\ q[2].call = "write"
          /\ q[i].handle = q[1].handle
    /\ \A i \in C31_Calls(w, "write") : q[i].handle = q[1].handle
    /\ Cardinality(C31_Calls(w, "lock")) <= 1
    /\ Cardinality(C31_Calls(w, "unlock")) <= 1

C31_Paired(w) ==
    LET q == writes[w].calls IN
    C31_Ended(w) =>
        /\ (Len(q) > 0 /\ q[1].ok) => Cardinality(C31_Calls(w, "unlock")) = 1
        /\ (Len(q) > 0 /\ ~q[1].ok) => Len(q) = 1
        /\ Len(q) = 0 => writes[w].result \in {"no_adt", "bad_type"}

\* C31: sap_write calls write_source only after lock_object has returned,
\* follows every lock_object that returned by exactly one unlock_object
\* with the handle it returned, also when write_source fails, and attempts
\* neither the write nor the unlock when lock_object fails.
C31_LockWriteUnlock ==
    \A w \in WriteIds : C31_Order(w) /\ C31_Paired(w)

\* a call of sap_write has ended whose write_source failed after a lock
\* that gave handle h1, and the unlock with h1 was made
C31_Witness ==
    \E w \in WriteIds :
        /\ writes[w].pc = "raised"
        /\ writes[w].result = "write_failed"
        /\ writes[w].calls =
              <<AdtCall("lock", "h1", TRUE), AdtCall("write", "h1", FALSE),
                AdtCall("unlock", "h1", TRUE)>>

\* the backoff sleeps start() has made, in order
C32_Delays == SelectSeq(sleeps, LAMBDA d : d # 0)

\* no connection of the agent got past the token check
C32_NeverAuthenticated == \A c \in Conns : srv[c] \in {"none", "accepted", "closed_4001"}

\* C32: a connection the server rejects for its token is a failed handshake
\* for the supervisor and does not reset the backoff delay: as long as every
\* attempt fails or is rejected, the delays are 2, 4, 8, ... up to 60 s.
C32_RejectionKeepsBackoff ==
    C32_NeverAuthenticated =>
        /\ Len(C32_Delays) > 0 => C32_Delays[1] = RECONNECT_DELAY_INITIAL
        /\ \A i \in 1..(Len(C32_Delays) - 1) :
              C32_Delays[i + 1] =
                 IF 2 * C32_Delays[i] < RECONNECT_DELAY_MAX
                 THEN 2 * C32_Delays[i] ELSE RECONNECT_DELAY_MAX

\* C33: is_connected is true only while start() is inside a connection:
\* it is false during a connect attempt, during the backoff sleep, once the
\* loop has left a connection the counterpart closed, and after start() has
\* ended through the cancellation of its task.
C33_ConnectedOnlyInSession ==
    is_connected => tpc \in {"status", "recv", "handler"}

\* the step settles the waiting call id
C34_Settles(id) ==
    /\ id \in DOMAIN pending
    /\ pending[id].st = "waiting"
    /\ id \in DOMAIN pending'
    /\ pending'[id].st = "done"

C34_SettleStep ==
    \A id \in CallIds :
        C34_Settles(id) =>
            /\ op' = [name |-> "resolve_response", id |-> id, ret |-> "true"]
            /\ pending'[id].val = resolvedWith'[id]
            /\ calls' = calls
            /\ \A other \in DOMAIN pending \ {id} :
                  other \in DOMAIN pending' /\ pending'[other] = pending[other]

C34_ReturnInv ==
    \A id \in CallIds :
        (calls[id].pc = "returned" /\ calls[id].outcome = "value") =>
            (trueCount[id] = 1 /\ calls[id].result = resolvedWith[id])

\* C34: a response with session id X settles the call that registered X and
\* no other: that call returns the value of the response, and every other
\* pending call stays pending with its entry in the table.
C34_ResponseSettlesOwnCall ==
    []C34_ReturnInv /\ [][C34_SettleStep]_vars

\* of two calls that are waiting together, one has just been settled by its
\* response and the other is still waiting with its entry
C34_Witness ==
    \E other \in CallIds :
        /\ op = [name |-> "resolve_response", id |-> op.id, ret |-> "true"]
        /\ op.id \in CallIds \ {other}
        /\ calls[op.id].pc = "waiting"
        /\ pending[op.id] = [st |-> "done", val |-> "pong"]
        /\ calls[other].pc = "waiting"
        /\ other \in DOMAIN pending
        /\ pending[other].st = "waiting"

\* the bridges of the agents that are registered
C35_LiveBridges == {poolAgents[a] : a \in DOMAIN poolAgents}

C36_InSession(pc) == pc \in {"status", "recv", "handler"}

\* a running supervisor leaves the connection it was in
C36_ConnectionLost == running /\ C36_InSession(tpc) /\ ~C36_InSession(tpc')

C36_CountStep ==
    /\ reconnect_count' >= reconnect_count
    /\ (tpc # "sleep" /\ tpc' = "sleep") => reconnect_count' = reconnect_count + 1
    /\ C36_ConnectionLost => reconnect_count' = reconnect_count + 1
    /\ (C36_InSession(tpc) /\ C36_InSession(tpc')) => reconnect_count' = reconnect_count

\* C36: reconnect_count goes up by one each time the supervisor fails to
\* establish a connection or loses the one it had, a clean close by the
\* counterpart included, never goes down and is unchanged by message
\* traffic.
C36_CountsEndedEpisodes ==
    [][C36_CountStep]_vars

\* the counters of TunnelStats
C37_Counters == <<stats.messages_sent, stats.messages_received,
                  stats.commands_processed, reconnect_count>>

C37_SentStep ==
    /\ stats'.messages_sent > stats.messages_sent =>
          (SendResult = "sent" /\ stats'.messages_sent = stats.messages_sent + 1)
    /\ SendResult # "sent" => stats'.messages_sent = stats.messages_sent
    /\ (beats' = beats + 1 /\ SendResult # "sent") => C37_Counters' = C37_Counters

C37_MonotoneStep ==
    /\ stats'.messages_sent >= stats.messages_sent
    /\ stats'.messages_received >= stats.messages_received
    /\ stats'.commands_processed >= stats.commands_processed
    /\ reconnect_count' >= reconnect_count

\* C37: messages_sent goes up, by one, only on a step that hands a frame to
\* an open channel; a send without a websocket or on a closed channel leaves
\* the counters as they are, and no counter ever goes down.
C37_SentCountsRealSends ==
    [][C37_SentStep /\ C37_MonotoneStep]_vars

\* the heartbeat task of a running tunnel has ended on a send that failed,
\* and the status frame is the one frame counted as sent
C37_Witness ==
    /\ hb = "ended"
    /\ running
    /\ beats = 1
    /\ stats.messages_sent = 1
    /\ stats.messages_received > 0

C38_OneAtATime == tpc = "handler" <=> cur # NoMsg

C38_StartStep ==
    (tpc # "handler" /\ tpc' = "handler") =>
        (tpc = "recv" /\ cur = NoMsg /\ msgs' = msgs + 1)

C38_EndStep ==
    (tpc = "handler" /\ tpc' # "handler") =>
        /\ last'.msg = cur
        /\ stats'.messages_sent = stats.messages_sent + Len(last'.replies)
        /\ \A i \in 1..Len(last'.replies) : last'.replies[i].session_id = cur.session_id
        /\ cur' = NoMsg
        /\ msgs' = msgs

\* C38: within a session the agent handles one command at a time and
\* answers in the order of receipt: a handler starts only when no command
\* is being handled, and the step that ends the handling of a command sends
\* its response before any further message is taken.
C38_OneCommandAtATime ==
    []C38_OneAtATime /\ [][C38_StartStep /\ C38_EndStep]_vars

\* the handler of a second command is running after the response to the
\* first command went out
C38_Witness ==
    /\ tpc = "handler"
    /\ msgs = 2
    /\ stats.commands_processed = 2
    /\ last.msg.type = "search"
    /\ last.outcome = "dispatch_ok"
    /\ Len(last.replies) = 1
    /\ last.open

====
